---------------------------- MODULE Spec2Model ----------------------------
(***************************************************************************)
(* A model of the fashion product-detail-page scraper: the normalizers of  *)
(* src/lib/utils.js, the three readers and the coordinator                 *)
(* (extractProductData) of src/lib/extractors.js, and the request handler  *)
(* with the crawler's retry loop of src/main.js.                           *)
(*                                                                         *)
(* JavaScript values are tagged records: [t |-> "null"], [t |->            *)
(* "undefined"], [t |-> "NaN"], [t |-> "number", v |-> n], [t |-> "string",*)
(* v |-> s], [t |-> "array", v |-> <<...>>] and [t |-> "object", ...] with *)
(* the object's keys as further fields.  A string is a sequence of         *)
(* one-character strings.  A number is an integer count of hundredths      *)
(* (29.99 is 2999): the model's inputs carry at most two decimals.         *)
(***************************************************************************)
EXTENDS Integers, Sequences, FiniteSets, TLC

-----------------------------------------------------------------------------
(* JavaScript values *)

Null == [t |-> "null"]

Undef == [t |-> "undefined"]

NaN == [t |-> "NaN"]

Num(n) == [t |-> "number", v |-> n]

Str(s) == [t |-> "string", v |-> s]

Arr(v) == [t |-> "array", v |-> v]

IsStr(x) == x.t = "string"

IsNum(x) == x.t = "number"

\* JavaScript truthiness (the `!x`, `x || y`, `if (x)` tests of the source)
Truthy(x) ==
    CASE x.t = "null" -> FALSE
      [] x.t = "undefined" -> FALSE
      [] x.t = "NaN" -> FALSE
      [] x.t = "number" -> x.v # 0
      [] x.t = "string" -> x.v # <<>>
      [] OTHER -> TRUE

\* a || b
Or(a, b) == IF Truthy(a) THEN a ELSE b

\* x[key] for a value x that is neither null nor undefined: the key's value
\* for an object that has the key, undefined for an object without it and for
\* a number, a string or an array (the keys read are no array or string
\* properties)
Get(x, key) == IF x.t = "object" /\ key \in DOMAIN x THEN x[key] ELSE Undef

\* the TypeError a property read on null or undefined throws, in place of the
\* value of the function that threw
TypeError == [t |-> "TypeError"]

-----------------------------------------------------------------------------
(* Strings: sequences of characters *)

Digits == {"0", "1", "2", "3", "4", "5", "6", "7", "8", "9"}

DigitVal(c) ==
    CASE c = "0" -> 0 [] c = "1" -> 1 [] c = "2" -> 2 [] c = "3" -> 3
      [] c = "4" -> 4 [] c = "5" -> 5 [] c = "6" -> 6 [] c = "7" -> 7
      [] c = "8" -> 8 [] c = "9" -> 9

UpperLetters == {"A", "B", "C", "D", "E", "F", "G", "H", "I", "J", "K", "L", "M",
                 "N", "O", "P", "Q", "R", "S", "T", "U", "V", "W", "X", "Y", "Z"}

LowerToUpper ==
    [c \in {"a", "b", "c", "d", "e", "f", "g", "h", "i", "j", "k", "l", "m",
            "n", "o", "p", "q", "r", "s", "t", "u", "v", "w", "x", "y", "z"} |->
        CASE c = "a" -> "A" [] c = "b" -> "B" [] c = "c" -> "C" [] c = "d" -> "D"
          [] c = "e" -> "E" [] c = "f" -> "F" [] c = "g" -> "G" [] c = "h" -> "H"
          [] c = "i" -> "I" [] c = "j" -> "J" [] c = "k" -> "K" [] c = "l" -> "L"
          [] c = "m" -> "M" [] c = "n" -> "N" [] c = "o" -> "O" [] c = "p" -> "P"
          [] c = "q" -> "Q" [] c = "r" -> "R" [] c = "s" -> "S" [] c = "t" -> "T"
          [] c = "u" -> "U" [] c = "v" -> "V" [] c = "w" -> "W" [] c = "x" -> "X"
          [] c = "y" -> "Y" [] c = "z" -> "Z"]

UpperChar(c) == IF c \in DOMAIN LowerToUpper THEN LowerToUpper[c] ELSE c

LowerChar(c) ==
    IF c \in UpperLetters
    THEN CHOOSE l \in DOMAIN LowerToUpper : LowerToUpper[l] = c
    ELSE c

\* String.prototype.toUpperCase / toLowerCase
ToUpperCase(s) == [i \in 1..Len(s) |-> UpperChar(s[i])]

ToLowerCase(s) == [i \in 1..Len(s) |-> LowerChar(s[i])]

WhiteSpace == {" ", "\t", "\n"}

RECURSIVE TrimStart(_)
TrimStart(s) ==
    IF s # <<>> /\ Head(s) \in WhiteSpace THEN TrimStart(Tail(s)) ELSE s

RECURSIVE TrimEnd(_)
TrimEnd(s) ==
    IF s # <<>> /\ s[Len(s)] \in WhiteSpace
    THEN TrimEnd(SubSeq(s, 1, Len(s) - 1))
    ELSE s

\* String.prototype.trim
Trim(s) == TrimEnd(TrimStart(s))

\* s has p at (1-based) position i
HasAt(s, i, p) ==
    /\ i >= 1
    /\ i + Len(p) - 1 <= Len(s)
    /\ \A k \in 1..Len(p) : s[i + k - 1] = p[k]

\* String.prototype.startsWith / endsWith / includes
StartsWith(s, p) == HasAt(s, 1, p)

EndsWith(s, p) == HasAt(s, Len(s) - Len(p) + 1, p)

Includes(s, p) == \E i \in 1..(Len(s) + 1) : HasAt(s, i, p)

\* the characters of s that are not in the set cs (a global replace of a
\* character class by the empty string)
RECURSIVE StripChars(_, _)
StripChars(s, cs) ==
    IF s = <<>> THEN <<>>
    ELSE IF Head(s) \in cs THEN StripChars(Tail(s), cs)
    ELSE <<Head(s)>> \o StripChars(Tail(s), cs)

\* the length of the longest run of characters of cs that starts at i
RECURSIVE RunLen(_, _, _)
RunLen(s, i, cs) ==
    IF i <= Len(s) /\ s[i] \in cs THEN 1 + RunLen(s, i + 1, cs) ELSE 0

-----------------------------------------------------------------------------
(* Normalizers (src/lib/utils.js) *)

\* normalizeEmpty(value)
normalizeEmpty(value) ==
    IF value.t = "undefined" THEN Null
    ELSE IF IsStr(value) /\ Trim(value.v) = <<>> THEN Null
    ELSE value

\* the integer written by a run of digits
RECURSIVE DigitsValue(_)
DigitsValue(ds) ==
    IF ds = <<>> THEN 0
    ELSE 10 * DigitsValue(SubSeq(ds, 1, Len(ds) - 1)) + DigitVal(ds[Len(ds)])

\* parseFloat of a run of digits and points: the longest prefix
\* digits* [ "." digits* ] with at least one digit, counted in hundredths
\* (decimals past the second are dropped); NaN when it has no digit.
ParseFloat(m) ==
    LET intLen == RunLen(m, 1, Digits)
        hasDot == intLen + 1 <= Len(m) /\ m[intLen + 1] = "."
        fracLen == IF hasDot THEN RunLen(m, intLen + 2, Digits) ELSE 0
        frac == SubSeq(m, intLen + 2, intLen + 1 + fracLen)
        cents == IF fracLen = 0 THEN 0
                 ELSE IF fracLen = 1 THEN 10 * DigitVal(frac[1])
                 ELSE 10 * DigitVal(frac[1]) + DigitVal(frac[2])
    IN  IF intLen = 0 /\ fracLen = 0 THEN NaN
        ELSE Num(100 * DigitsValue(SubSeq(m, 1, intLen)) + cents)

CurrencySymbols == {"€", "$", "£", "¥", "₹", "₽", "₴", "₸"}

\* the first match of /[\d.]+/ in s, or <<>> for no match
FirstNumberRun(s) ==
    LET cs == Digits \cup {"."}
    IN  IF \E i \in 1..Len(s) : s[i] \in cs
        THEN LET i == CHOOSE k \in 1..Len(s) :
                          /\ s[k] \in cs
                          /\ \A j \in 1..(k - 1) : s[j] \notin cs
             IN  SubSeq(s, i, i + RunLen(s, i, cs) - 1)
        ELSE <<>>

\* a faulty extractPrice: it reads the whole part of the number only
extractPriceWholePart(price) ==
    IF price.t \in {"null", "undefined"} THEN Null
    ELSE IF price.t = "NaN" THEN Null
    ELSE IF IsNum(price) THEN price
    ELSE IF ~IsStr(price) THEN Null
    ELSE LET m == FirstNumberRun(StripChars(price.v, CurrencySymbols \cup {","} \cup WhiteSpace))
             num == ParseFloat(SubSeq(m, 1, RunLen(m, 1, Digits)))
         IN  IF m = <<>> \/ num.t = "NaN" THEN Null ELSE num

\* extractPrice(price)
extractPrice(price) ==
    IF price.t \in {"null", "undefined"} THEN Null
    ELSE IF price.t = "NaN" THEN Null
    ELSE IF IsNum(price) THEN price
    ELSE IF ~IsStr(price) THEN Null
    ELSE LET cleaned == Trim(StripChars(StripChars(StripChars(price.v,
                            CurrencySymbols), {","}), WhiteSpace))
             match == FirstNumberRun(cleaned)
             num == ParseFloat(match)
         IN  IF match = <<>> THEN Null
             ELSE IF num.t = "NaN" THEN Null ELSE num

symbolMap(s) ==
    CASE s = <<"€">> -> <<"E", "U", "R">>
      [] s = <<"$">> -> <<"U", "S", "D">>
      [] s = <<"£">> -> <<"G", "B", "P">>
      [] s = <<"¥">> -> <<"J", "P", "Y">>
      [] s = <<"₹">> -> <<"I", "N", "R">>
      [] s = <<"₽">> -> <<"R", "U", "B">>
      [] s = <<"₴">> -> <<"U", "A", "H">>
      [] s = <<"₸">> -> <<"K", "Z", "T">>
      [] OTHER -> <<>>

nameMap(s) ==
    CASE s = <<"E", "U", "R", "O">> -> <<"E", "U", "R">>
      [] s = <<"D", "O", "L", "L", "A", "R">> -> <<"U", "S", "D">>
      [] s = <<"P", "O", "U", "N", "D">> -> <<"G", "B", "P">>
      [] s = <<"Y", "E", "N">> -> <<"J", "P", "Y">>
      [] s = <<"R", "U", "B", "L", "E">> -> <<"R", "U", "B">>
      [] OTHER -> <<>>

\* normalizeCurrency(currency)
normalizeCurrency(currency) ==
    IF ~Truthy(currency) \/ ~IsStr(currency) THEN Null
    ELSE LET normalized == ToUpperCase(Trim(currency.v))
         IN  IF symbolMap(normalized) # <<>> THEN Str(symbolMap(normalized))
             ELSE IF nameMap(normalized) # <<>> THEN Str(nameMap(normalized))
             ELSE IF Len(normalized) = 3 /\ \A i \in 1..3 : normalized[i] \in UpperLetters
                  THEN Str(normalized)
             ELSE Null

\* the position of the first occurrence of p in s at or after i, 0 for none
IndexFrom(s, p, i) ==
    IF \E k \in i..(Len(s) + 1) : HasAt(s, k, p)
    THEN CHOOSE k \in i..(Len(s) + 1) :
             HasAt(s, k, p) /\ \A j \in i..(k - 1) : ~HasAt(s, j, p)
    ELSE 0

HttpScheme == <<"h", "t", "t", "p", ":", "/", "/">>

HttpsScheme == <<"h", "t", "t", "p", "s", ":", "/", "/">>

SchemeLen(url) ==
    IF StartsWith(url, HttpsScheme) THEN Len(HttpsScheme)
    ELSE IF StartsWith(url, HttpScheme) THEN Len(HttpScheme)
    ELSE 0

\* new URL(url) succeeds: an http(s) URL with a host (the only URLs of the model)
ValidUrl(url) == SchemeLen(url) > 0 /\ Len(url) > SchemeLen(url) /\ url[SchemeLen(url) + 1] # "/"

\* scheme and authority of a valid URL, e.g. https://s.co
Origin(url) ==
    LET slash == IndexFrom(url, <<"/">>, SchemeLen(url) + 1)
    IN  IF slash = 0 THEN url ELSE SubSeq(url, 1, slash - 1)

\* new URL(url).hostname
Hostname(url) == SubSeq(Origin(url), SchemeLen(url) + 1, Len(Origin(url)))

\* new URL(url).pathname ("/" when the URL has none); the model's URLs carry
\* no query and no fragment
Pathname(url) ==
    IF Len(Origin(url)) = Len(url) THEN <<"/">>
    ELSE SubSeq(url, Len(Origin(url)) + 1, Len(url))

\* the path up to and including its last "/"
RECURSIVE DirOf(_)
DirOf(path) ==
    IF path = <<>> \/ path[Len(path)] = "/" THEN path
    ELSE DirOf(SubSeq(path, 1, Len(path) - 1))

\* extractDomain(url): the hostname without a leading "www."
extractDomain(url) ==
    IF ~ValidUrl(url) THEN Null
    ELSE LET h == Hostname(url)
         IN  IF StartsWith(h, <<"w", "w", "w", ".">>)
             THEN Str(SubSeq(h, 5, Len(h)))
             ELSE Str(h)

\* resolveUrl(url, baseUrl).  new URL(url, base).href is modelled for the
\* references the model's pages use: a path relative to the base's directory
\* (a.jpg) and a path from the root (/img/a.jpg).
resolveUrl(url, baseUrl) ==
    IF ~Truthy(url) \/ ~IsStr(url) THEN Null
    ELSE IF StartsWith(url.v, HttpScheme) \/ StartsWith(url.v, HttpsScheme) THEN url
    ELSE IF ~ValidUrl(baseUrl) THEN Null
    ELSE IF Head(url.v) = "/" THEN Str(Origin(baseUrl) \o url.v)
    ELSE Str(Origin(baseUrl) \o DirOf(Pathname(baseUrl)) \o url.v)

\* The length of the match at position i of s of one of the size patterns of
\* getLargestImages, 0 when the pattern does not match there.
\*   "_w"     /_[w]?\d+/        "_size"  /_(small|medium|large|xl|xxl|xxxl)/i
\*   "w="     /[?&]w=\d+/i      "width=" /[?&]width=\d+/i
\*   "h="     /[?&]h=\d+/i      "height=" /[?&]height=\d+/i
\*   "/dims"  /\/\d+x\d+|\/w_\d+/i
\* a match of /[?&]name\d+/i at position i: its length, else 0
ParamMatchLen(name, s, i) ==
    IF s[i] \in {"?", "&"} /\ HasAt(ToLowerCase(s), i + 1, name)
       /\ RunLen(s, i + 1 + Len(name), Digits) > 0
    THEN 1 + Len(name) + RunLen(s, i + 1 + Len(name), Digits)
    ELSE 0

\* the size word that follows position i of the lower-cased string: its
\* length, else 0
SizeWordLen(low, i) ==
    IF HasAt(low, i + 1, <<"s", "m", "a", "l", "l">>) THEN 5
    ELSE IF HasAt(low, i + 1, <<"m", "e", "d", "i", "u", "m">>) THEN 6
    ELSE IF HasAt(low, i + 1, <<"l", "a", "r", "g", "e">>) THEN 5
    ELSE IF HasAt(low, i + 1, <<"x", "l">>) THEN 2
    ELSE IF HasAt(low, i + 1, <<"x", "x", "l">>) THEN 3
    ELSE IF HasAt(low, i + 1, <<"x", "x", "x", "l">>) THEN 4
    ELSE 0

\* a match of /\/\d+x\d+|\/w_\d+/i at position i, given the length a of the
\* run of digits after the "/": its length, else 0
DimsMatchLen(s, i, a) ==
    IF a > 0 /\ HasAt(ToLowerCase(s), i + 1 + a, <<"x">>)
       /\ RunLen(s, i + 2 + a, Digits) > 0
    THEN 2 + a + RunLen(s, i + 2 + a, Digits)
    ELSE IF HasAt(ToLowerCase(s), i + 1, <<"w", "_">>) /\ RunLen(s, i + 3, Digits) > 0
    THEN 3 + RunLen(s, i + 3, Digits)
    ELSE 0

SizeMatchLen(pat, s, i) ==
    CASE pat = "_w" ->
           IF s[i] # "_" THEN 0
           ELSE IF HasAt(s, i + 1, <<"w">>) /\ RunLen(s, i + 2, Digits) > 0
                THEN 2 + RunLen(s, i + 2, Digits)
           ELSE IF RunLen(s, i + 1, Digits) > 0 THEN 1 + RunLen(s, i + 1, Digits)
           ELSE 0
      [] pat = "_size" ->
           IF s[i] # "_" \/ SizeWordLen(ToLowerCase(s), i) = 0 THEN 0
           ELSE 1 + SizeWordLen(ToLowerCase(s), i)
      [] pat = "w=" -> ParamMatchLen(<<"w", "=">>, s, i)
      [] pat = "width=" -> ParamMatchLen(<<"w", "i", "d", "t", "h", "=">>, s, i)
      [] pat = "h=" -> ParamMatchLen(<<"h", "=">>, s, i)
      [] pat = "height=" -> ParamMatchLen(<<"h", "e", "i", "g", "h", "t", "=">>, s, i)
      [] pat = "/dims" ->
           IF s[i] # "/" THEN 0 ELSE DimsMatchLen(s, i, RunLen(s, i + 1, Digits))

\* s.replace(/pat/g, ''): left to right, matches do not overlap
RECURSIVE RemoveFrom(_, _, _)
RemoveFrom(pat, s, i) ==
    IF i > Len(s) THEN <<>>
    ELSE IF SizeMatchLen(pat, s, i) > 0 THEN RemoveFrom(pat, s, i + SizeMatchLen(pat, s, i))
    ELSE <<s[i]>> \o RemoveFrom(pat, s, i + 1)

RemoveAll(pat, s) == RemoveFrom(pat, s, 1)

\* url.split('?')[0]
BeforeQuery(s) ==
    LET q == IndexFrom(s, <<"?">>, 1)
    IN  IF q = 0 THEN s ELSE SubSeq(s, 1, q - 1)

\* a || b for strings: the empty string is falsy
OrStr(a, b) == IF a # <<>> THEN a ELSE b

\* the chain of size-indicator replaces of getLargestImages
StripSizes(url) ==
    RemoveAll("height=", RemoveAll("h=", RemoveAll("width=",
        RemoveAll("w=", RemoveAll("_size", RemoveAll("_w", url))))))

\* what the callback of getLargestImages returns for url, given largestUrl
\* after the replaces
LargestOf(url, largestUrl) ==
    IF Includes(largestUrl, <<"i", "m", "a", "g", "e", "k", "i", "t", ".", "i", "o">>)
       \/ Includes(largestUrl, <<"c", "l", "o", "u", "d", "i", "n", "a", "r", "y", ".", "c", "o", "m">>)
    THEN url
    ELSE IF Includes(largestUrl, <<"s", "t", "a", "t", "i", "c", ".", "z", "a", "r", "a", ".", "n", "e", "t">>)
            \/ Includes(largestUrl, <<"s", "t", ".", "m", "n", "g", "b", "c", "n", ".", "c", "o", "m">>)
    THEN OrStr(RemoveAll("/dims", BeforeQuery(largestUrl)), BeforeQuery(largestUrl))
    ELSE OrStr(largestUrl, url)

\* the callback of getLargestImages for one string URL
LargestUrl(url) == LargestOf(url, StripSizes(url))

\* getLargestImages(imageUrls) for an array of strings: an empty string maps
\* to null and is filtered out
RECURSIVE getLargestImages(_)
getLargestImages(imageUrls) ==
    IF imageUrls = <<>> THEN <<>>
    ELSE IF Head(imageUrls) = <<>> THEN getLargestImages(Tail(imageUrls))
    ELSE <<LargestUrl(Head(imageUrls))>> \o getLargestImages(Tail(imageUrls))

\* the decimal digits of a natural number
RECURSIVE NatToStr(_)
NatToStr(n) ==
    LET d == <<"0", "1", "2", "3", "4", "5", "6", "7", "8", "9">>[(n % 10) + 1]
    IN  IF n < 10 THEN <<d>> ELSE NatToStr(n \div 10) \o <<d>>

\* String(x) for the values the model's pages hold: a string, or a
\* non-negative number
String(x) ==
    IF IsStr(x) THEN x
    ELSE IF IsNum(x)
    THEN Str(NatToStr(x.v \div 100) \o
             (IF x.v % 100 = 0 THEN <<>>
              ELSE IF x.v % 10 = 0 THEN <<".">> \o NatToStr((x.v % 100) \div 10)
              ELSE <<".">> \o NatToStr((x.v % 100) \div 10) \o NatToStr(x.v % 10)))
    ELSE Str(<<"n", "u", "l", "l">>)

-----------------------------------------------------------------------------
(* Structured-Data Reader (src/lib/extractors.js) *)

\* A parsed JSON-LD block is a record: type is the sequence of the type names
\* its "@type" gives (one name for a string, <<>> when absent), graph is the
\* sequence of the items of its "@graph" (<<>> when absent), the other fields
\* are JavaScript values (Undef for a missing key).  A script whose text
\* JSON.parse rejects is Unparsable in place of a block.

Unparsable == [t |-> "unparsable"]

IsProductType(type) == \E i \in 1..Len(type) : type[i] = "Product"

EmptyBlock ==
    [t |-> "object", type |-> <<"Product">>, graph |-> <<>>, name |-> Undef, description |-> Undef,
     sku |-> Undef, productID |-> Undef, offers |-> Undef, image |-> Undef]

\* extractFromJsonLd's result for no block, and the initial value of every reader's result
EmptyResult ==
    [title |-> Null, description |-> Null, price |-> Null, currency |-> Null,
     sku |-> Null, images |-> <<>>]

\* the for loop over the parsed scripts: the first block that is a Product
\* or whose @graph holds one.  A null item of a @graph met before a Product
\* makes item['@type'] throw; the function's catch turns that into null.
RECURSIVE FindProduct(_)
FindProduct(jsonLdScripts) ==
    IF jsonLdScripts = <<>> THEN Null
    ELSE LET jsonLd == Head(jsonLdScripts)
             inGraph == {i \in 1..Len(jsonLd.graph) :
                            \/ jsonLd.graph[i] = Null
                            \/ IsProductType(jsonLd.graph[i].type)}
             first == CHOOSE i \in inGraph : \A j \in inGraph : i <= j
         IN  IF IsProductType(jsonLd.type) THEN jsonLd
             ELSE IF inGraph # {}
                  THEN IF jsonLd.graph[first] = Null THEN Null ELSE jsonLd.graph[first]
             ELSE FindProduct(Tail(jsonLdScripts))

\* extractJsonLd(page): scripts is what the page holds; a rejected page.$$eval
\* (fails) is caught by the function's try and gives null
extractJsonLd(scripts, fails) ==
    IF fails THEN Null
    ELSE FindProduct(SelectSeq(scripts, LAMBDA sc : sc.t # "unparsable"))

\* x is an array ? x : [x]
AsArray(x) == IF x.t = "array" THEN x.v ELSE <<x>>

\* the .map(...).filter(Boolean) over an image list: a string entry, else the
\* entry's url (with src: then the entry's src), resolved; what does not
\* resolve is dropped
RECURSIVE ResolveAll(_, _, _)
ResolveAll(imgs, baseUrl, withSrc) ==
    IF imgs = <<>> THEN <<>>
    ELSE LET img == Head(imgs)
             r == IF IsStr(img) THEN resolveUrl(img, baseUrl)
                  ELSE IF Truthy(img) /\ Truthy(Get(img, "url"))
                       THEN resolveUrl(Get(img, "url"), baseUrl)
                  ELSE IF withSrc /\ Truthy(img) /\ Truthy(Get(img, "src"))
                       THEN resolveUrl(Get(img, "src"), baseUrl)
                  ELSE Null
         IN  (IF Truthy(r) THEN <<r.v>> ELSE <<>>) \o ResolveAll(Tail(imgs), baseUrl, withSrc)

\* extractFromJsonLd(jsonLd, baseUrl)
extractFromJsonLd(jsonLd, baseUrl) ==
    IF jsonLd.t # "object" THEN EmptyResult
    ELSE
    LET offers == AsArray(jsonLd.offers)
        offer == IF Truthy(jsonLd.offers) /\ offers # <<>> /\ Truthy(offers[1])
                 THEN offers[1] ELSE Undef
    IN
    [title |-> IF Truthy(jsonLd.name) THEN normalizeEmpty(jsonLd.name) ELSE Null,
     description |-> IF Truthy(jsonLd.description)
                     THEN normalizeEmpty(jsonLd.description) ELSE Null,
     sku |-> IF Truthy(jsonLd.sku) THEN normalizeEmpty(String(jsonLd.sku))
             ELSE IF Truthy(jsonLd.productID) THEN normalizeEmpty(String(jsonLd.productID))
             ELSE Null,
     price |-> IF offer # Undef /\ Get(offer, "price") # Undef
               THEN extractPrice(Get(offer, "price")) ELSE Null,
     currency |-> IF offer # Undef /\ Truthy(Get(offer, "priceCurrency"))
                  THEN normalizeCurrency(Get(offer, "priceCurrency")) ELSE Null,
     images |-> IF Truthy(jsonLd.image)
                THEN ResolveAll(AsArray(jsonLd.image), baseUrl, FALSE) ELSE <<>>]

-----------------------------------------------------------------------------
(* Script-State Reader (src/lib/extractors.js) *)

\* the global-state names probed, in the order of the source's list
patterns ==
    <<"window.INITIAL_STATE", "window.__INITIAL_STATE__", "window.__PRELOADED_STATE__",
      "window.productData", "window.product", "__NEXT_DATA__", "window.__APOLLO_STATE__">>

\* A script-state object: the product it holds under each of the paths
\* extractFromEmbeddedJson tries (Undef for a missing path); products is Undef
\* or an array.
EmptyState ==
    [t |-> "object", product |-> Undef, dataProduct |-> Undef,
     pagePropsProduct |-> Undef, productData |-> Undef, products |-> Undef]

\* A product sub-object with none of the keys the reader looks at
EmptyProduct ==
    [t |-> "object", name |-> Undef, title |-> Undef, productName |-> Undef,
     description |-> Undef, detail |-> Undef, longDescription |-> Undef,
     price |-> Undef, priceValue |-> Undef, finalPrice |-> Undef,
     pricing |-> Undef, variants |-> Undef,
     currency |-> Undef, priceCurrency |-> Undef, currencyCode |-> Undef,
     sku |-> Undef, id |-> Undef, productId |-> Undef, reference |-> Undef,
     images |-> Undef, image |-> Undef]

\* a faulty FirstGlobal: a later name that resolves replaces an earlier one
RECURSIVE FirstGlobalLast(_, _, _)
FirstGlobalLast(globals, broken, i) ==
    IF i > Len(patterns) THEN Undef
    ELSE IF FirstGlobalLast(globals, broken, i + 1) # Undef
    THEN FirstGlobalLast(globals, broken, i + 1)
    ELSE IF patterns[i] \notin broken /\ Truthy(globals[patterns[i]])
            /\ globals[patterns[i]].t \in {"object", "array"}
    THEN globals[patterns[i]]
    ELSE Undef

\* the loop over patterns from index i on: globals maps each name to the value
\* page.evaluate finds, broken is the set of names whose page.evaluate rejects
\* (caught per probe); Undef when no name gives a non-null object
RECURSIVE FirstGlobal(_, _, _)
FirstGlobal(globals, broken, i) ==
    IF i > Len(patterns) THEN Undef
    ELSE LET value == globals[patterns[i]]
         IN  IF patterns[i] \notin broken /\ Truthy(value) /\ value.t \in {"object", "array"}
             THEN value
             ELSE FirstGlobal(globals, broken, i + 1)

\* extractEmbeddedJson(page).  dataState is what the data-attribute fallback
\* finds: Undef for no element or no attribute value, Unparsable for a value
\* JSON.parse rejects, else the parsed value.  attrFails: page.$ or
\* getAttribute of the fallback rejects, caught by the function's try.
extractEmbeddedJson(globals, dataState, broken, attrFails) ==
    LET value == FirstGlobal(globals, broken, 1)
    IN  IF value # Undef THEN value
        ELSE IF attrFails THEN Null
        ELSE IF dataState.t \in {"undefined", "unparsable"} THEN Null
        ELSE dataState

\* the selector of the data-attribute fallback
DataStateProbe == "[data-state], [data-product], [data-product-data]"

\* the names the loop over patterns evaluates from index i on, in order: it
\* stops after the first name that gives a non-null object
RECURSIVE ProbedNames(_, _, _)
ProbedNames(globals, broken, i) ==
    IF i > Len(patterns) THEN <<>>
    ELSE IF patterns[i] \notin broken /\ Truthy(globals[patterns[i]])
            /\ globals[patterns[i]].t \in {"object", "array"}
    THEN <<patterns[i]>>
    ELSE <<patterns[i]>> \o ProbedNames(globals, broken, i + 1)

\* the probes extractEmbeddedJson makes, in order: the names, and the
\* data-attribute fallback once the loop has ended without a return
EmbeddedProbes(globals, broken) ==
    ProbedNames(globals, broken, 1)
    \o (IF FirstGlobal(globals, broken, 1) = Undef THEN <<DataStateProbe>> ELSE <<>>)

\* the product sub-object of a script-state object; Undef for none
ProductOf(embeddedJson) ==
    IF Truthy(embeddedJson.product) THEN embeddedJson.product
    ELSE IF Truthy(embeddedJson.dataProduct) THEN embeddedJson.dataProduct
    ELSE IF Truthy(embeddedJson.pagePropsProduct) THEN embeddedJson.pagePropsProduct
    ELSE IF Truthy(embeddedJson.productData) THEN embeddedJson.productData
    ELSE IF Truthy(embeddedJson.products) /\ embeddedJson.products.t = "array"
            /\ embeddedJson.products.v # <<>>
    THEN embeddedJson.products.v[1]
    ELSE Undef

\* the price of a product sub-object; TypeError when the first entry of
\* variants is null (variant.price throws)
EmbeddedPrice(product) ==
    IF Get(product, "price") # Undef \/ Get(product, "priceValue") # Undef
       \/ Get(product, "finalPrice") # Undef
    THEN extractPrice(Or(Or(Get(product, "price"), Get(product, "priceValue")),
                         Get(product, "finalPrice")))
    ELSE IF Truthy(Get(product, "pricing"))
    THEN IF Get(Get(product, "pricing"), "finalPrice") # Undef
            \/ Get(Get(product, "pricing"), "price") # Undef
            \/ Get(Get(product, "pricing"), "currentPrice") # Undef
         THEN extractPrice(Or(Or(Get(Get(product, "pricing"), "finalPrice"),
                                 Get(Get(product, "pricing"), "price")),
                              Get(Get(product, "pricing"), "currentPrice")))
         ELSE Null
    ELSE IF Truthy(Get(product, "variants")) /\ Get(product, "variants").t = "array"
            /\ Get(product, "variants").v # <<>>
    THEN IF Get(product, "variants").v[1].t \in {"null", "undefined"} THEN TypeError
         ELSE IF Get(Get(product, "variants").v[1], "price") # Undef
                 \/ Get(Get(product, "variants").v[1], "priceValue") # Undef
         THEN extractPrice(Or(Get(Get(product, "variants").v[1], "price"),
                              Get(Get(product, "variants").v[1], "priceValue")))
         ELSE Null
    ELSE Null

\* the record extractFromEmbeddedJson builds from a product sub-object
ProductData(product, baseUrl, title, description, currency, sku) ==
    [title |-> IF Truthy(title) THEN normalizeEmpty(title) ELSE Null,
     description |-> IF Truthy(description) THEN normalizeEmpty(description) ELSE Null,
     price |-> EmbeddedPrice(product),
     currency |-> IF Truthy(currency) THEN normalizeCurrency(currency) ELSE Null,
     sku |-> IF Truthy(sku) THEN normalizeEmpty(String(sku)) ELSE Null,
     images |-> IF Truthy(Get(product, "images")) /\ Get(product, "images").t = "array"
                THEN ResolveAll(Get(product, "images").v, baseUrl, TRUE)
                ELSE IF Truthy(Get(product, "image"))
                THEN ResolveAll(AsArray(Get(product, "image")), baseUrl, FALSE)
                ELSE <<>>]

\* extractFromEmbeddedJson for the product sub-object found
FromProduct(product, baseUrl) ==
    IF EmbeddedPrice(product) = TypeError THEN TypeError
    ELSE ProductData(product, baseUrl,
             Or(Or(Get(product, "name"), Get(product, "title")), Get(product, "productName")),
             Or(Or(Get(product, "description"), Get(product, "detail")),
                Get(product, "longDescription")),
             Or(Or(Get(product, "currency"), Get(product, "priceCurrency")),
                Get(product, "currencyCode")),
             Or(Or(Or(Get(product, "sku"), Get(product, "id")), Get(product, "productId")),
                Get(product, "reference")))

\* extractFromEmbeddedJson(embeddedJson, baseUrl): the data, or TypeError
\* when it throws
extractFromEmbeddedJson(embeddedJson, baseUrl) ==
    IF ~Truthy(embeddedJson) \/ embeddedJson.t # "object" THEN EmptyResult
    ELSE IF ~Truthy(ProductOf(embeddedJson)) THEN EmptyResult
    ELSE FromProduct(ProductOf(embeddedJson), baseUrl)

-----------------------------------------------------------------------------
(* Selector-Based Reader (src/lib/extractors.js) *)

Zara == <<"z", "a", "r", "a", ".", "c", "o", "m">>

ShopMango == <<"s", "h", "o", "p", ".", "m", "a", "n", "g", "o", ".", "c", "o", "m">>

Mango == <<"m", "a", "n", "g", "o", ".", "c", "o", "m">>

\* DOMAIN_SELECTORS[domain] || the generic table; a table without a currency
\* list has currency <<>>
SelectorsFor(domain) ==
    IF domain = Str(Zara) THEN
      [title |-> <<"h1.product-detail-info__header-name", "[data-testid=\"product-title\"]", "h1">>,
       description |-> <<".product-detail-description", "[data-testid=\"product-description\"]",
                         ".product-description">>,
       price |-> <<".product-detail-info__price", "[data-testid=\"price\"]", ".price",
                   ".money-amount__main">>,
       currency |-> <<".product-detail-info__price", "[data-testid=\"price\"]", ".price",
                      ".money-amount__main", "[data-currency]">>,
       sku |-> <<"[data-product-id]", "[data-sku]", ".product-reference",
                 "[data-product-reference]">>,
       images |-> <<".product-detail-images__image", "img.product-detail-images__image",
                    ".product-detail-images img", ".product-detail-images picture img",
                    ".product-detail-images picture source", "[data-testid=\"product-image\"] img",
                    "[data-testid=\"product-image\"]", ".product-image img", ".media-image img",
                    "picture img", "picture source", ".product-gallery img", ".gallery img",
                    ".product-detail-images source", "img[src*=\"static.zara.net\"]",
                    "img[data-src*=\"static.zara.net\"]">>]
    ELSE IF domain = Str(ShopMango) THEN
      [title |-> <<"h1.product-title", ".product-name h1", "h1", "[data-testid=\"product-title\"]",
                   ".product-detail-title">>,
       description |-> <<".product-description", ".product-info-description", ".description",
                         "[data-testid=\"product-description\"]", ".product-detail-description",
                         ".product-details-description", ".product-info p">>,
       price |-> <<".product-price", ".price-current", "[data-testid=\"price\"]",
                   ".product-detail-price", ".price", ".product-price-current", "[data-price]",
                   ".money-amount", ".product-price-value">>,
       currency |-> <<".product-price", ".price-current", "[data-currency]", ".money-amount",
                      "[data-price-currency]">>,
       sku |-> <<"[data-product-id]", "[data-sku]", ".product-reference",
                 "[data-product-reference]", ".product-code">>,
       images |-> <<".product-images img", ".product-gallery img", ".product-image img",
                    ".product-detail-images img", ".product-images-container img", ".gallery img",
                    ".product-media img", "[data-testid=\"product-image\"] img", "picture img",
                    "picture source", ".product-carousel img", ".product-slider img">>]
    ELSE IF domain = Str(Mango) THEN
      [title |-> <<"h1.product-title", ".product-name h1", "h1">>,
       description |-> <<".product-description", ".product-info-description", ".description">>,
       price |-> <<".product-price", ".price-current", "[data-testid=\"price\"]">>,
       currency |-> <<>>,
       sku |-> <<"[data-product-id]", "[data-sku]", ".product-reference">>,
       images |-> <<".product-images img", ".product-gallery img", ".product-image img">>]
    ELSE
      [title |-> <<"h1", ".product-title", "[data-testid=\"product-title\"]">>,
       description |-> <<".product-description", ".description",
                         "[data-testid=\"product-description\"]">>,
       price |-> <<".price", ".product-price", "[data-testid=\"price\"]">>,
       currency |-> <<>>,
       sku |-> <<"[data-sku]", "[data-product-id]", ".sku">>,
       images |-> <<".product-image img", ".product-images img", "img[data-product-image]">>]

\* The rendered DOM of a page is a record:
\*   els        selector |-> the first element it matches, [text, attrs]
\*   meta       meta selector |-> the content of the meta tag it matches
\*   imgs       selector |-> the sources the page.$$eval callback returns for it
\*   allImgs    the sources of every img element, as the lazy-load pass reads them
\*   jsonCurrency, jsonSku   what the in-page search of the script-state
\*              globals returns (Null for nothing); jsonImages the sequence of
\*              image URLs the in-page image search returns
\* A probe is a pair <<field, selector>>; broken is the set of probes whose
\* page call rejects.

\* element.getAttribute(name)
Attr(el, name) == IF name \in DOMAIN el.attrs THEN el.attrs[name] ELSE Null

\* the first of the named attributes with a truthy value, else last
RECURSIVE FirstAttr(_, _, _)
FirstAttr(el, names, last) ==
    IF names = <<>> THEN last
    ELSE IF Truthy(Attr(el, Head(names))) THEN Attr(el, Head(names))
    ELSE FirstAttr(el, Tail(names), last)

\* a text that is non-null and not blank
HasText(text) == Truthy(text) /\ Trim(text.v) # <<>>

\* a faulty FirstText: a probe that fails ends the loop
RECURSIVE FirstTextAborting(_, _, _, _, _)
FirstTextAborting(dom, field, sels, broken, i) ==
    IF i > Len(sels) THEN Null
    ELSE IF <<field, sels[i]>> \in broken THEN Null
    ELSE IF sels[i] \in DOMAIN dom.els /\ HasText(dom.els[sels[i]].text)
    THEN dom.els[sels[i]].text
    ELSE FirstTextAborting(dom, field, sels, broken, i + 1)

\* the title/description/price loops: the text of the first selector from
\* index i on whose probe succeeds, finds an element and reads a non-blank text
RECURSIVE FirstText(_, _, _, _, _)
FirstText(dom, field, sels, broken, i) ==
    IF i > Len(sels) THEN Null
    ELSE IF <<field, sels[i]>> \notin broken /\ sels[i] \in DOMAIN dom.els
            /\ HasText(dom.els[sels[i]].text)
    THEN dom.els[sels[i]].text
    ELSE FirstText(dom, field, sels, broken, i + 1)

\* the currency selector loop from index i on, cur the currency so far;
\* CurrencyOfElement is the loop's body for an element with the currency
\* attribute currencyAttr and the text content text
RECURSIVE CurrencyFromSelectors(_, _, _, _, _)
CurrencyOfElement(dom, sels, broken, i, cur, currencyAttr, text) ==
    IF Truthy(currencyAttr) /\ Truthy(normalizeCurrency(currencyAttr))
    THEN normalizeCurrency(currencyAttr)
    ELSE IF HasText(text) /\ Truthy(normalizeCurrency(text)) THEN normalizeCurrency(text)
    ELSE CurrencyFromSelectors(dom, sels, broken, i + 1,
             IF Truthy(currencyAttr) THEN normalizeCurrency(currencyAttr) ELSE cur)

CurrencyFromSelectors(dom, sels, broken, i, cur) ==
    IF i > Len(sels) THEN cur
    ELSE IF <<"currency", sels[i]>> \in broken \/ sels[i] \notin DOMAIN dom.els
    THEN CurrencyFromSelectors(dom, sels, broken, i + 1, cur)
    ELSE CurrencyOfElement(dom, sels, broken, i, cur,
             FirstAttr(dom.els[sels[i]], <<"data-currency", "currency">>,
                       Attr(dom.els[sels[i]], "data-currency-code")),
             dom.els[sels[i]].text)

\* page.$eval(selector, el => el.content).catch(() => null)
MetaContent(dom, sel, broken) ==
    IF <<"meta", sel>> \in broken \/ sel \notin DOMAIN dom.meta THEN Null ELSE dom.meta[sel]

\* the country code table of the URL-locale currency fallback
countryCurrencyMap(code) ==
    LET c(a, b, d) == <<a, b, d>>
    IN  CASE code = <<"u", "s">> -> c("U", "S", "D") [] code = <<"u", "k">> -> c("G", "B", "P")
          [] code = <<"g", "b">> -> c("G", "B", "P") [] code = <<"c", "y">> -> c("E", "U", "R")
          [] code = <<"d", "e">> -> c("E", "U", "R") [] code = <<"f", "r">> -> c("E", "U", "R")
          [] code = <<"e", "s">> -> c("E", "U", "R") [] code = <<"i", "t">> -> c("E", "U", "R")
          [] code = <<"n", "l">> -> c("E", "U", "R") [] code = <<"b", "e">> -> c("E", "U", "R")
          [] code = <<"a", "t">> -> c("E", "U", "R") [] code = <<"p", "t">> -> c("E", "U", "R")
          [] code = <<"i", "e">> -> c("E", "U", "R") [] code = <<"f", "i">> -> c("E", "U", "R")
          [] code = <<"p", "l">> -> c("P", "L", "N") [] code = <<"c", "z">> -> c("C", "Z", "K")
          [] code = <<"s", "e">> -> c("S", "E", "K") [] code = <<"d", "k">> -> c("D", "K", "K")
          [] code = <<"n", "o">> -> c("N", "O", "K") [] code = <<"c", "h">> -> c("C", "H", "F")
          [] code = <<"j", "p">> -> c("J", "P", "Y") [] code = <<"c", "n">> -> c("C", "N", "Y")
          [] code = <<"a", "u">> -> c("A", "U", "D") [] code = <<"c", "a">> -> c("C", "A", "D")
          [] code = <<"m", "x">> -> c("M", "X", "N") [] code = <<"b", "r">> -> c("B", "R", "L")
          [] code = <<"r", "u">> -> c("R", "U", "B") [] code = <<"u", "a">> -> c("U", "A", "H")
          [] code = <<"k", "z">> -> c("K", "Z", "T") [] code = <<"t", "r">> -> c("T", "R", "Y")
          [] code = <<"a", "e">> -> c("A", "E", "D") [] code = <<"s", "a">> -> c("S", "A", "R")
          [] OTHER -> <<>>

\* pathname.split('/').filter(Boolean): the non-empty segments of a path
RECURSIVE PathParts(_)
PathParts(path) ==
    IF path = <<>> THEN <<>>
    ELSE IF Head(path) = "/" THEN PathParts(Tail(path))
    ELSE LET n == IF IndexFrom(path, <<"/">>, 1) = 0 THEN Len(path)
                  ELSE IndexFrom(path, <<"/">>, 1) - 1
         IN  <<SubSeq(path, 1, n)>> \o PathParts(SubSeq(path, n + 1, Len(path)))

\* countryCurrencyMap is an object literal: a key it does not own is looked
\* up on Object.prototype, which has two all-lower-case names, constructor (a
\* function) and __proto__ (an object)
InheritedKey(code) ==
    CASE code = <<"c", "o", "n", "s", "t", "r", "u", "c", "t", "o", "r">> -> [t |-> "function"]
      [] code = <<"_", "_", "p", "r", "o", "t", "o", "_", "_">> -> [t |-> "object"]
      [] OTHER -> Undef

\* the currency the country code table has for the first path segment
CurrencyOfParts(pathParts) ==
    IF pathParts # <<>> /\ countryCurrencyMap(ToLowerCase(pathParts[1])) # <<>>
    THEN Str(countryCurrencyMap(ToLowerCase(pathParts[1])))
    ELSE IF pathParts # <<>> /\ Truthy(InheritedKey(ToLowerCase(pathParts[1])))
    THEN InheritedKey(ToLowerCase(pathParts[1]))
    ELSE Null

\* the URL-locale currency fallback
CurrencyFromUrl(baseUrl) ==
    CurrencyOfParts(IF ValidUrl(baseUrl) THEN PathParts(Pathname(baseUrl)) ELSE <<>>)

\* a faulty SetIfMissing: a step that finds a value replaces the one set before
SetWhenFound(cur, cond, value) == IF cond THEN value ELSE cur

\* if (!cur && cond) cur = value: the value of cur afterwards
SetIfMissing(cur, cond, value) == IF ~Truthy(cur) /\ cond THEN value ELSE cur

\* the first truthy content of the meta tags sels, else the last one's
RECURSIVE FirstMeta(_, _, _)
FirstMeta(dom, sels, broken) ==
    IF Len(sels) = 1 THEN MetaContent(dom, Head(sels), broken)
    ELSE Or(MetaContent(dom, Head(sels), broken), FirstMeta(dom, Tail(sels), broken))

\* A fallback chain is the sequence of the steps that may set one field of the
\* reader, in source order.  A step is a record: guard, what its if asks for
\* beside the field being unset; cond, whether it found something to assign;
\* value, what it assigns.
\* the field after the steps of the chain: each is if (!cur && guard) { if
\* (cond) cur = value }
RECURSIVE FallbackChain(_)
FallbackChain(steps) ==
    IF steps = <<>> THEN Null
    ELSE SetIfMissing(FallbackChain(SubSeq(steps, 1, Len(steps) - 1)),
                      steps[Len(steps)].guard /\ steps[Len(steps)].cond,
                      steps[Len(steps)].value)

\* a faulty StepsAttempted: every step is entered, whatever the field holds
StepsAttemptedAll(steps) == [i \in 1..Len(steps) |-> steps[i].name]

\* the names of the steps of the chain whose body is entered, in order; the
\* selector loop that opens a chain has no if of its own
RECURSIVE StepsAttempted(_)
StepsAttempted(steps) ==
    IF steps = <<>> THEN <<>>
    ELSE StepsAttempted(SubSeq(steps, 1, Len(steps) - 1))
         \o (IF ~Truthy(FallbackChain(SubSeq(steps, 1, Len(steps) - 1)))
                /\ steps[Len(steps)].guard
             THEN <<steps[Len(steps)].name>> ELSE <<>>)

\* the currency steps of the reader: the price element's text, the currency
\* selectors, the meta tags, the URL locale, the script-state globals
CurrencyChain(dom, sels, baseUrl, broken, priceText) ==
    <<[name |-> "price", guard |-> TRUE,
       cond |-> HasText(priceText) /\ Truthy(normalizeCurrency(priceText)),
       value |-> normalizeCurrency(priceText)],
      [name |-> "selectors", guard |-> sels.currency # <<>>,
       cond |-> TRUE,
       value |-> CurrencyFromSelectors(dom, sels.currency, broken, 1, Null)],
      [name |-> "meta", guard |-> TRUE,
       cond |-> Truthy(FirstMeta(dom, <<"meta[property=\"product:price:currency\"]",
                                        "meta[name=\"currency\"]">>, broken)),
       value |-> normalizeCurrency(FirstMeta(dom, <<"meta[property=\"product:price:currency\"]",
                                                    "meta[name=\"currency\"]">>, broken))],
      [name |-> "url", guard |-> TRUE,
       cond |-> Truthy(CurrencyFromUrl(baseUrl)),
       value |-> CurrencyFromUrl(baseUrl)],
      [name |-> "json", guard |-> TRUE,
       cond |-> <<"json", "currency">> \notin broken /\ Truthy(dom.jsonCurrency),
       value |-> normalizeCurrency(dom.jsonCurrency)]>>

\* the currency of the reader
SelectorCurrency(dom, sels, baseUrl, broken, priceText) ==
    FallbackChain(CurrencyChain(dom, sels, baseUrl, broken, priceText))

\* the sku selector loop from index i on: the first selector whose element
\* gives a non-blank attribute or text; SkuOfElement is the loop's body for an
\* element whose attributes and text give sku
RECURSIVE SkuFromSelectors(_, _, _, _)
SkuOfElement(dom, sels, broken, i, sku) ==
    IF HasText(sku) THEN normalizeEmpty(Str(Trim(sku.v)))
    ELSE SkuFromSelectors(dom, sels, broken, i + 1)

SkuFromSelectors(dom, sels, broken, i) ==
    IF i > Len(sels) THEN Null
    ELSE IF <<"sku", sels[i]>> \in broken \/ sels[i] \notin DOMAIN dom.els
    THEN SkuFromSelectors(dom, sels, broken, i + 1)
    ELSE SkuOfElement(dom, sels, broken, i,
             FirstAttr(dom.els[sels[i]],
                       <<"data-sku", "data-product-id", "data-product-reference",
                         "data-reference", "id", "data-id">>,
                       dom.els[sels[i]].text))

\* the first match of /-?p?(\d+)/i in a path segment: its group 1 is the
\* first run of digits of the segment; <<>> for no match
FirstDigitRun(part) ==
    IF \E i \in 1..Len(part) : part[i] \in Digits
    THEN LET i == CHOOSE k \in 1..Len(part) :
                      part[k] \in Digits /\ \A j \in 1..(k - 1) : part[j] \notin Digits
         IN  SubSeq(part, i, i + RunLen(part, i, Digits) - 1)
    ELSE <<>>

\* a faulty SkuFromParts: only a segment of six or more digits gives a sku
RECURSIVE SkuFromBareSegments(_)
SkuFromBareSegments(pathParts) ==
    IF pathParts = <<>> THEN Null
    ELSE IF Len(Head(pathParts)) >= 6
            /\ \A i \in 1..Len(Head(pathParts)) : Head(pathParts)[i] \in Digits
    THEN Str(Head(pathParts))
    ELSE SkuFromBareSegments(Tail(pathParts))

\* the URL fallback of the sku: the loop over the path segments
RECURSIVE SkuFromParts(_)
SkuFromParts(pathParts) ==
    IF pathParts = <<>> THEN Null
    ELSE IF FirstDigitRun(Head(pathParts)) # <<>> THEN Str(FirstDigitRun(Head(pathParts)))
    ELSE IF Len(Head(pathParts)) >= 6
            /\ \A i \in 1..Len(Head(pathParts)) : Head(pathParts)[i] \in Digits
    THEN Str(Head(pathParts))
    ELSE SkuFromParts(Tail(pathParts))

\* the selector of the data-attribute probe of the sku
SkuProbe == "[data-product-id], [data-sku], [data-product-reference], [data-product-code]"

\* the attribute the data-attribute probe of the sku reads
SkuAttr(dom, broken) ==
    IF <<"sku-attr", SkuProbe>> \in broken \/ SkuProbe \notin DOMAIN dom.els THEN Null
    ELSE FirstAttr(dom.els[SkuProbe],
                   <<"data-product-id", "data-sku", "data-product-reference">>,
                   Attr(dom.els[SkuProbe], "data-product-code"))

\* normalizeEmpty(x.trim()); on a value that is no string the call throws
\* into the probe's catch and the sku stays null
TrimmedOrNull(x) == IF IsStr(x) THEN normalizeEmpty(Str(Trim(x.v))) ELSE Null

\* the sku steps of the reader: the sku selectors, the URL path, the meta
\* tags, the script-state globals, the data-attribute probe
SkuChain(dom, sels, baseUrl, broken) ==
    <<[name |-> "selectors", guard |-> TRUE, cond |-> TRUE,
       value |-> SkuFromSelectors(dom, sels.sku, broken, 1)],
      [name |-> "url", guard |-> TRUE,
       cond |-> ValidUrl(baseUrl),
       value |-> SkuFromParts(PathParts(Pathname(baseUrl)))],
      [name |-> "meta", guard |-> TRUE,
       cond |-> Truthy(FirstMeta(dom, <<"meta[property=\"product:sku\"]",
                                        "meta[name=\"product:sku\"]",
                                        "meta[property=\"product:id\"]">>, broken)),
       value |-> TrimmedOrNull(FirstMeta(dom, <<"meta[property=\"product:sku\"]",
                                                "meta[name=\"product:sku\"]",
                                                "meta[property=\"product:id\"]">>, broken))],
      [name |-> "json", guard |-> TRUE,
       cond |-> <<"json", "sku">> \notin broken /\ Truthy(dom.jsonSku),
       value |-> TrimmedOrNull(dom.jsonSku)],
      [name |-> "attr", guard |-> TRUE,
       cond |-> Truthy(SkuAttr(dom, broken)),
       value |-> TrimmedOrNull(SkuAttr(dom, broken))]>>

\* the sku of the reader
SelectorSku(dom, sels, baseUrl, broken) == FallbackChain(SkuChain(dom, sels, baseUrl, broken))

\* /\d+[-](p|a|e|b|d|f|...|z)\d*/.test(lowerUrl): a digit, a dash, a letter
\* other than c
ZaraProductPattern(lowerUrl) ==
    \E i \in 1..Len(lowerUrl) :
        /\ lowerUrl[i] \in Digits
        /\ HasAt(lowerUrl, i + 1, <<"-">>)
        /\ i + 2 <= Len(lowerUrl)
        /\ lowerUrl[i + 2] \in (DOMAIN LowerToUpper) \ {"c"}

\* /\.(ext1|ext2|...)(\?|$)/i.test(lowerUrl)
HasExtension(lowerUrl, exts) ==
    \E e \in exts : \E i \in 1..Len(lowerUrl) :
        /\ HasAt(lowerUrl, i, <<".">> \o e)
        /\ \/ i + Len(e) = Len(lowerUrl)
           \/ HasAt(lowerUrl, i + Len(e) + 1, <<"?">>)

ZaraExtensions ==
    {<<"j", "p", "g">>, <<"j", "p", "e", "g">>, <<"p", "n", "g">>, <<"w", "e", "b", "p">>}

\* a faulty KeepImage: it applies the Zara rules under every domain
KeepImageZaraEverywhere(lowerUrl, domain, mangoRule) ==
    /\ ~EndsWith(lowerUrl, <<".", "s", "v", "g">>)
    /\ ~Includes(lowerUrl, <<"p", "l", "a", "c", "e", "h", "o", "l", "d", "e", "r">>)
    /\ ZaraProductPattern(lowerUrl) /\ HasExtension(lowerUrl, ZaraExtensions)

\* the image filter of the reader on the lower-cased URL; mangoRule: the
\* caller is the lazy-load pass, which adds the Mango extension rule
KeepImage(lowerUrl, domain, mangoRule) ==
    /\ ~EndsWith(lowerUrl, <<".", "s", "v", "g">>)
    /\ \A x \in {<<"t", "r", "a", "n", "s", "p", "a", "r", "e", "n", "t", "-", "b", "a", "c",
                    "k", "g", "r", "o", "u", "n", "d">>,
                  <<"t", "r", "a", "n", "s", "p", "a", "r", "e", "n", "t", ".", "p", "n", "g">>,
                  <<"p", "l", "a", "c", "e", "h", "o", "l", "d", "e", "r">>,
                  <<"/", "i", "c", "o", "n">>,
                  <<"i", "c", "o", "n", "o", "s">>,
                  <<"i", "c", "o", "n", "-">>} : ~Includes(lowerUrl, x)
    /\ (domain = Str(Zara) =>
           ZaraProductPattern(lowerUrl) /\ HasExtension(lowerUrl, ZaraExtensions))
    /\ (mangoRule /\ domain \in {Str(ShopMango), Str(Mango)} =>
           HasExtension(lowerUrl, ZaraExtensions \cup {<<"g", "i", "f">>}))

\* [...new Set(urls)]: the first occurrence of each URL, in order
RECURSIVE Dedupe(_)
Dedupe(urls) ==
    IF urls = <<>> THEN <<>>
    ELSE IF \E i \in 1..(Len(urls) - 1) : urls[i] = urls[Len(urls)]
    THEN Dedupe(SubSeq(urls, 1, Len(urls) - 1))
    ELSE Append(Dedupe(SubSeq(urls, 1, Len(urls) - 1)), urls[Len(urls)])

\* .filter(Boolean).filter(...) on one resolved URL: it alone, or nothing
KeepResolved(r, domain, mangoRule) ==
    IF Truthy(r) /\ KeepImage(ToLowerCase(r.v), domain, mangoRule) THEN <<r.v>> ELSE <<>>

\* .map(url => resolveUrl(url, baseUrl)).filter(Boolean).filter(...)
RECURSIVE ResolveAndFilter(_, _, _, _)
ResolveAndFilter(srcs, baseUrl, domain, mangoRule) ==
    IF srcs = <<>> THEN <<>>
    ELSE KeepResolved(resolveUrl(Str(Head(srcs)), baseUrl), domain, mangoRule)
         \o ResolveAndFilter(Tail(srcs), baseUrl, domain, mangoRule)

\* the sources of every image selector from index i on, in order
RECURSIVE AllImageUrls(_, _, _, _)
AllImageUrls(dom, sels, broken, i) ==
    IF i > Len(sels) THEN <<>>
    ELSE (IF <<"images", sels[i]>> \notin broken /\ sels[i] \in DOMAIN dom.imgs
          THEN dom.imgs[sels[i]] ELSE <<>>)
         \o AllImageUrls(dom, sels, broken, i + 1)

\* the sources the lazy-load pass keeps: those of the known CDN hostnames
CdnImages(srcs) ==
    SelectSeq(srcs, LAMBDA src :
        \E x \in {<<"s", "t", "a", "t", "i", "c", ".", "z", "a", "r", "a", ".", "n", "e", "t">>,
                  <<"s", "t", ".", "m", "n", "g", "b", "c", "n", ".", "c", "o", "m">>,
                  <<"m", "e", "d", "i", "a", ".", "m", "a", "n", "g", "o", ".", "c", "o", "m">>,
                  Mango} : Includes(src, x))

\* the images after the in-page JSON search, given those of the selectors
WithJsonImages(images, dom, domain, baseUrl, broken) ==
    IF (Len(images) < 10 \/ domain \in {Str(ShopMango), Str(Mango)})
       /\ <<"json", "images">> \notin broken /\ dom.jsonImages # <<>>
    THEN Dedupe(images \o ResolveAndFilter(dom.jsonImages, baseUrl, domain, FALSE))
    ELSE images

\* the images after the lazy-load pass, given those found before
WithLazyImages(images, dom, domain, baseUrl, broken) ==
    IF ((domain = Str(Zara) /\ Len(images) < 6)
        \/ (domain \in {Str(ShopMango), Str(Mango)} /\ Len(images) = 0))
       /\ <<"lazy", "img">> \notin broken /\ Dedupe(CdnImages(dom.allImgs)) # <<>>
    THEN Dedupe(images \o ResolveAndFilter(Dedupe(CdnImages(dom.allImgs)), baseUrl, domain, TRUE))
    ELSE images

\* the images of the reader: the image selectors, the in-page JSON search,
\* the lazy-load pass
SelectorImages(dom, sels, domain, baseUrl, broken) ==
    WithLazyImages(
        WithJsonImages(
            Dedupe(ResolveAndFilter(AllImageUrls(dom, sels.images, broken, 1),
                                    baseUrl, domain, FALSE)),
            dom, domain, baseUrl, broken),
        dom, domain, baseUrl, broken)

\* the text of a title or description element as the reader stores it
TextField(text) == IF HasText(text) THEN normalizeEmpty(Str(Trim(text.v))) ELSE Null

\* the reader's data, given the selector table sels of the domain and the
\* text of the price element
SelectorData(dom, sels, domain, baseUrl, broken, priceText) ==
    [title |-> TextField(FirstText(dom, "title", sels.title, broken, 1)),
     description |-> TextField(FirstText(dom, "description", sels.description, broken, 1)),
     price |-> IF HasText(priceText) THEN extractPrice(priceText) ELSE Null,
     currency |-> SelectorCurrency(dom, sels, baseUrl, broken, priceText),
     sku |-> SelectorSku(dom, sels, baseUrl, broken),
     images |-> SelectorImages(dom, sels, domain, baseUrl, broken)]

\* extractFromSelectors(page, domain, baseUrl): every page call sits in a
\* try whose catch goes on with the next probe
extractFromSelectors(dom, domain, baseUrl, broken) ==
    SelectorData(dom, SelectorsFor(domain), domain, baseUrl, broken,
                 FirstText(dom, "price", SelectorsFor(domain).price, broken, 1))

-----------------------------------------------------------------------------
(* The pages of the model *)

\* the page URLs: a plain one, and one whose path holds a size fragment (_xl)
PlainUrl == <<"h", "t", "t", "p", "s", ":", "/", "/", "s", ".", "c", "o", "/", "p", "/", "1">>

SizedUrl == <<"h", "t", "t", "p", "s", ":", "/", "/", "s", ".", "c", "o", "/", "t", "_", "x", "l", "/", "1">>

AJpg == Str(<<"a", ".", "j", "p", "g">>)

BJpg == Str(<<"b", ".", "j", "p", "g">>)

EJpg == Str(<<"/", "i", "/", "e", ".", "j", "p", "g">>)

BlueShirt == Str(<<"B", "l", "u", "e", " ", "S", "h", "i", "r", "t">>)

Eur == Str(<<"E", "U", "R">>)

\* the structured-data blocks of the model's pages: a Product block with or
\* without a name, with no offer, a free offer or an offer at "29.99" EUR,
\* with or without two images, with or without description and sku
LdBlocks ==
    {[EmptyBlock EXCEPT !.name = n, !.offers = o, !.image = i,
                        !.description = d, !.sku = d] :
        n \in {Undef, BlueShirt},
        o \in {Undef,
               [t |-> "object", price |-> Num(0), priceCurrency |-> Eur],
               [t |-> "object", price |-> Str(<<"2", "9", ".", "9", "9">>), priceCurrency |-> Eur]},
        i \in {Undef, Arr(<<AJpg, BJpg>>)},
        d \in {Undef, Str(<<"L", "D", "1">>)}}

\* the script-state products of the model's pages
StateProducts ==
    {[EmptyProduct EXCEPT !.title = n, !.price = pr, !.images = i,
                          !.detail = d, !.id = d, !.currencyCode = c] :
        n \in {Undef, Str(<<"T", "e", "e">>)},
        pr \in {Undef, Str(<<"$", "1", "9", ".", "5", "0">>)},
        i \in {Undef},
        d \in {Str(<<"7", "7">>)},
        c \in {Str(<<"u", "s", "d">>)}}
    \cup
    {[EmptyProduct EXCEPT !.name = n, !.finalPrice = pr,
                          !.images = Arr(<<[t |-> "object", url |-> Undef, src |-> EJpg]>>)] :
        n \in {Undef, Str(<<"T", "e", "e">>)},
        pr \in {Undef, Num(500)}}

NoGlobals == [p \in {patterns[i] : i \in 1..Len(patterns)} |-> Undef]

\* the script-state of the model's pages: none, or a product under
\* window.__PRELOADED_STATE__
GlobalsChoices ==
    {NoGlobals} \cup
    {[NoGlobals EXCEPT !["window.__PRELOADED_STATE__"] = [EmptyState EXCEPT !.product = pd]] :
        pd \in StateProducts}

\* a lookup with no entry
NoEntries == [x \in {} |-> Null]

BlankDom ==
    [els |-> NoEntries, meta |-> NoEntries, imgs |-> NoEntries, allImgs |-> <<>>,
     jsonCurrency |-> Null, jsonSku |-> Null, jsonImages |-> <<>>]

H1Dom ==
    [BlankDom EXCEPT
        !.els = ("h1" :> [text |-> Str(<<" ", "P", "o", "l", "o", " ">>), attrs |-> NoEntries])]

ShopDom ==
    [BlankDom EXCEPT
        !.els = ("h1" :> [text |-> Str(<<"P", "o", "l", "o">>), attrs |-> NoEntries])
                @@ (".price" :> [text |-> Str(<<"€", " ", "9", ".", "9", "0">>), attrs |-> NoEntries])
                @@ (".description" :> [text |-> Str(<<"s", "o", "f", "t">>), attrs |-> NoEntries]),
        !.meta = ("meta[name=\"currency\"]" :> Str(<<"g", "b", "p">>)),
        !.imgs = (".product-image img" :>
                    <<<<"/", "i", "/", "s", "_", "w", "5", "0", "0", ".", "j", "p", "g">>,
                      <<"/", "i", "/", "l", "o", "g", "o", ".", "s", "v", "g">>>>)]

PriceDom ==
    [BlankDom EXCEPT
        !.els = (".product-price" :> [text |-> Str(<<"1", "2">>), attrs |-> NoEntries]),
        !.imgs = (".product-images img" :> <<<<"/", "i", "/", "q", ".", "p", "n", "g">>>>)]

DomChoices == {BlankDom, H1Dom, ShopDom, PriceDom}

\* what a page that did not load shows
BlankContent ==
    [scripts |-> <<>>, globals |-> NoGlobals, dataState |-> Undef, dom |-> BlankDom]

\* every site of the model: a URL and the content it serves; under the
\* URL with the size fragment, the sites with at most one source of data
Sites ==
    {[url |-> PlainUrl, scripts |-> sc, globals |-> g, dataState |-> Undef, dom |-> d] :
        sc \in {<<>>} \cup {<<b>> : b \in LdBlocks},
        g \in GlobalsChoices,
        d \in DomChoices}
    \cup
    {[url |-> SizedUrl, scripts |-> sc, globals |-> NoGlobals, dataState |-> Undef,
      dom |-> BlankDom] :
        sc \in {<<>>} \cup {<<b>> : b \in LdBlocks}}

-----------------------------------------------------------------------------
(* The crawl: src/main.js and extractProductData of src/lib/extractors.js *)

\* the requests of a run (the entries of startUrls)
Requests == {1, 2}

\* the default of the input field maxRequestRetries
maxRequestRetries == 2

VARIABLES
    maxRetries, \* the input field maxRequestRetries of the run
    site,       \* site[r]: the URL of request r and what it serves
    pc,         \* pc[r]: where the processing of request r stands
    retryCount, \* retryCount[r]: the failed attempts of r so far
    closed,     \* closed[r]: the page of the current attempt is closed (crashed)
    content,    \* content[r]: what the page of the current attempt shows
    navFailed,  \* navFailed[r]: page.goto rejected in the current attempt
    result,     \* result[r]: the record extractProductData is building
    calls,      \* calls[r]: the readers extractProductData has invoked, in order
    critical,   \* critical[r]: the first reader that gave the record a title or a price
    fatalSeen,  \* fatalSeen[r]: a page call of extractProductData failed on a closed page
    emitted,    \* emitted[r]: the records pushed to the dataset for r, in order
    attempts    \* attempts[r]: the finished attempts of r, [navFailed, ok]

vars == <<maxRetries, site, pc, retryCount, closed, content, navFailed, result, calls, critical,
          fatalSeen, emitted, attempts>>

\* the record extractProductData starts from; raw.jsonLd and raw.detectedApi
\* are the fields jsonLd and detectedApi
NewResult(url) ==
    [url |-> url, domain |-> extractDomain(url), title |-> Null, description |-> Null,
     price |-> Null, currency |-> Null, sku |-> Null, images |-> <<>>,
     jsonLd |-> Null, detectedApi |-> "null"]

\* the record the catch block of the request handler pushes
ErrorRecord(url) ==
    [url |-> url, domain |-> Null, title |-> Null, description |-> Null,
     price |-> Null, currency |-> Null, sku |-> Null, images |-> <<>>,
     jsonLd |-> Null, detectedApi |-> "null", error |-> TRUE]

\* normalizedData of the request handler
NormalizedData(productData) ==
    [url |-> productData.url, domain |-> productData.domain,
     title |-> Or(productData.title, Null),
     description |-> Or(productData.description, Null),
     price |-> IF productData.price.t \notin {"null", "undefined"}
               THEN productData.price ELSE Null,
     currency |-> Or(productData.currency, Null),
     sku |-> Or(productData.sku, Null),
     images |-> productData.images,
     jsonLd |-> productData.jsonLd,
     detectedApi |-> productData.detectedApi, error |-> FALSE]

\* Object.assign(result, jsonLdData)
Assign(res, data) ==
    [res EXCEPT !.title = data.title, !.description = data.description,
                !.price = data.price, !.currency = data.currency,
                !.sku = data.sku, !.images = data.images]

\* a faulty Merge: it leaves the provenance as it is
MergeWithoutProvenance(res, data, api) ==
    [res EXCEPT
        !.title = IF ~Truthy(@) /\ Truthy(data.title) THEN data.title ELSE @,
        !.description = IF ~Truthy(@) /\ Truthy(data.description) THEN data.description ELSE @,
        !.price = IF ~Truthy(@) /\ data.price # Null THEN data.price ELSE @,
        !.currency = IF ~Truthy(@) /\ Truthy(data.currency) THEN data.currency ELSE @,
        !.sku = IF ~Truthy(@) /\ Truthy(data.sku) THEN data.sku ELSE @,
        !.images = IF @ = <<>> /\ data.images # <<>> THEN data.images ELSE @]

\* a faulty Merge: it appends the reader's images to those of the record
MergeAppending(res, data, api) ==
    [res EXCEPT
        !.title = IF ~Truthy(@) /\ Truthy(data.title) THEN data.title ELSE @,
        !.description = IF ~Truthy(@) /\ Truthy(data.description) THEN data.description ELSE @,
        !.price = IF ~Truthy(@) /\ data.price # Null THEN data.price ELSE @,
        !.currency = IF ~Truthy(@) /\ Truthy(data.currency) THEN data.currency ELSE @,
        !.sku = IF ~Truthy(@) /\ Truthy(data.sku) THEN data.sku ELSE @,
        !.images = @ \o data.images,
        !.detectedApi = IF @ = "null" THEN api ELSE @]

\* the merge of a later reader's data into the record (the script-state and
\* the selector merge are the same statements)
Merge(res, data, api) ==
    [res EXCEPT
        !.title = IF ~Truthy(@) /\ Truthy(data.title) THEN data.title ELSE @,
        !.description = IF ~Truthy(@) /\ Truthy(data.description) THEN data.description ELSE @,
        !.price = IF ~Truthy(@) /\ data.price # Null THEN data.price ELSE @,
        !.currency = IF ~Truthy(@) /\ Truthy(data.currency) THEN data.currency ELSE @,
        !.sku = IF ~Truthy(@) /\ Truthy(data.sku) THEN data.sku ELSE @,
        !.images = IF @ = <<>> /\ data.images # <<>> THEN data.images ELSE @,
        !.detectedApi = IF @ = "null" THEN api ELSE @]

\* if (!result.title || !result.price): the script-state stage runs
NeedsEmbedded(res) == ~Truthy(res.title) \/ ~Truthy(res.price)

\* if (!result.title || !result.price || result.images.length === 0): the
\* selector stage runs
NeedsSelectors(res) == ~Truthy(res.title) \/ ~Truthy(res.price) \/ res.images = <<>>

\* a faulty StageAfter: it goes back to the script-state reader after the selectors
StageAfterBacktrack(stage, res) ==
    IF stage = "jsonld"
    THEN IF NeedsEmbedded(res) THEN "embedded"
         ELSE IF NeedsSelectors(res) THEN "selectors" ELSE "largest"
    ELSE IF stage = "embedded"
    THEN IF NeedsSelectors(res) THEN "selectors" ELSE "largest"
    ELSE IF NeedsEmbedded(res) THEN "embedded" ELSE "largest"

\* the control flow of extractProductData: the stage that follows a stage,
\* given the record the stage leaves
StageAfter(stage, res) ==
    IF stage = "jsonld"
    THEN IF NeedsEmbedded(res) THEN "embedded"
         ELSE IF NeedsSelectors(res) THEN "selectors" ELSE "largest"
    ELSE IF stage = "embedded"
    THEN IF NeedsSelectors(res) THEN "selectors" ELSE "largest"
    ELSE "largest"

\* the first reader that gave the record a title or a price
CriticalAfter(was, res, api) ==
    IF was = "null" /\ (res.title # Null \/ res.price # Null) THEN api ELSE was

\* the probes that fail without the page being closed (a timeout, a detached
\* element): none, or one probe of a reader
EmbeddedFaults == {{}, {"window.__PRELOADED_STATE__"}}

SelectorFaults == {{}, {<<"title", "h1">>}}

\* Actor.main from the requests mapping on: an entry of startUrls that is
\* neither a string nor an object with a url makes the mapping throw, and the
\* run ends before crawler.run; else crawler.run queues a request per entry
Start ==
    /\ \E r \in Requests : pc[r] \in {"entry", "invalid"}
    /\ pc' = IF \E r \in Requests : pc[r] = "invalid"
             THEN [r \in Requests |-> IF pc[r] = "absent" THEN "absent" ELSE "aborted"]
             ELSE [r \in Requests |-> IF pc[r] = "entry" THEN "queued" ELSE pc[r]]
    /\ UNCHANGED <<maxRetries, site, retryCount, closed, content, navFailed, result, calls,
                   critical, fatalSeen, emitted, attempts>>

\* the crawler takes request r from the queue and opens a fresh page for it
Dispatch(r) ==
    /\ pc[r] = "queued"
    /\ pc' = [pc EXCEPT ![r] = "hook"]
    /\ closed' = [closed EXCEPT ![r] = FALSE]
    /\ content' = [content EXCEPT ![r] = BlankContent]
    /\ navFailed' = [navFailed EXCEPT ![r] = "no"]
    /\ result' = [result EXCEPT ![r] = NewResult(site[r].url)]
    /\ calls' = [calls EXCEPT ![r] = <<>>]
    /\ critical' = [critical EXCEPT ![r] = "null"]
    /\ fatalSeen' = [fatalSeen EXCEPT ![r] = FALSE]
    /\ UNCHANGED <<maxRetries, site, retryCount, emitted, attempts>>

\* the page of the current attempt crashes or is closed
PageCrash(r) ==
    /\ pc[r] \in {"hook", "goto", "settle", "jsonld", "embedded", "selectors"}
    /\ ~closed[r]
    /\ closed' = [closed EXCEPT ![r] = TRUE]
    /\ UNCHANGED <<maxRetries, site, pc, retryCount, content, navFailed, result, calls, critical,
                   fatalSeen, emitted, attempts>>

\* an attempt ends with an error thrown to the crawler: the request is
\* retried while retries are left, else it has failed
AttemptFails(r) ==
    /\ attempts' = [attempts EXCEPT ![r] = Append(@, [navFailed |-> navFailed[r], ok |-> FALSE])]
    /\ IF retryCount[r] < maxRetries
       THEN /\ retryCount' = [retryCount EXCEPT ![r] = @ + 1]
            /\ pc' = [pc EXCEPT ![r] = "queued"]
       ELSE /\ retryCount' = retryCount
            /\ pc' = [pc EXCEPT ![r] = "failed"]

\* the preNavigationHook: page.route is awaited outside any try, so on a
\* closed page the hook rejects and the attempt fails before the request
\* handler runs
PreNavigation(r) ==
    /\ pc[r] = "hook"
    /\ IF closed[r]
       THEN AttemptFails(r)
       ELSE /\ pc' = [pc EXCEPT ![r] = "goto"]
            /\ UNCHANGED <<retryCount, attempts>>
    /\ UNCHANGED <<maxRetries, site, closed, content, navFailed, result, calls, critical,
                   fatalSeen, emitted>>

\* page.goto(url).catch(...): a rejection (a timeout with the content
\* there, a network error with nothing loaded, a closed page) is logged and
\* the handler goes on
Goto(r) ==
    /\ pc[r] = "goto"
    /\ \E outcome \in (IF closed[r] THEN {"network"} ELSE {"no", "timeout", "network"}) :
          /\ navFailed' = [navFailed EXCEPT ![r] = outcome]
          /\ content' = [content EXCEPT ![r] =
                IF outcome = "network" THEN BlankContent
                ELSE [scripts |-> site[r].scripts, globals |-> site[r].globals,
                      dataState |-> site[r].dataState, dom |-> site[r].dom]]
    /\ pc' = [pc EXCEPT ![r] = "settle"]
    /\ UNCHANGED <<maxRetries, site, retryCount, closed, result, calls, critical, fatalSeen,
                   emitted, attempts>>

\* the waits and the location-page check between navigation and extraction:
\* every page call but page.waitForTimeout(5000) has a catch; on a closed
\* page that one rejects and control goes to the catch block.  The model's
\* pages are no location-selection pages.
Settle(r) ==
    /\ pc[r] = "settle"
    /\ pc' = [pc EXCEPT ![r] = IF closed[r] THEN "catch" ELSE "jsonld"]
    /\ UNCHANGED <<maxRetries, site, retryCount, closed, content, navFailed, result, calls,
                   critical, fatalSeen, emitted, attempts>>

\* a faulty StageEnds: the record is one object shared by every invocation
StageEndsShared(r, stage, api, res) ==
    /\ result' = [q \in Requests |-> res]
    /\ critical' = [critical EXCEPT ![r] = CriticalAfter(@, res, api)]
    /\ pc' = [pc EXCEPT ![r] = StageAfter(stage, res)]
    /\ calls' = [calls EXCEPT ![r] = Append(@, stage)]
    /\ fatalSeen' = [fatalSeen EXCEPT ![r] = @ \/ closed[r]]
    /\ UNCHANGED <<maxRetries, site, retryCount, closed, content, navFailed, emitted, attempts>>

\* a stage of extractProductData ends: res is the record it leaves, api the
\* provenance label of its reader
StageEnds(r, stage, api, res) ==
    /\ result' = [result EXCEPT ![r] = res]
    /\ critical' = [critical EXCEPT ![r] = CriticalAfter(@, res, api)]
    /\ pc' = [pc EXCEPT ![r] = StageAfter(stage, res)]
    /\ calls' = [calls EXCEPT ![r] = Append(@, stage)]
    /\ fatalSeen' = [fatalSeen EXCEPT ![r] = @ \/ closed[r]]
    /\ UNCHANGED <<maxRetries, site, retryCount, closed, content, navFailed, emitted, attempts>>

\* the record after stage 1, given what extractJsonLd returned
AfterJsonLd(res, jsonLd, baseUrl) ==
    IF jsonLd.t = "object"
    THEN [Assign(res, extractFromJsonLd(jsonLd, baseUrl))
            EXCEPT !.jsonLd = jsonLd, !.detectedApi = "json-ld"]
    ELSE res

\* the record after stage 2, given what extractEmbeddedJson returned
AfterEmbedded(res, embeddedJson, baseUrl) ==
    IF Truthy(embeddedJson)
    THEN Merge(res, extractFromEmbeddedJson(embeddedJson, baseUrl), "embedded-json")
    ELSE res

\* extractProductData, stage 1: extractJsonLd and, for a block,
\* Object.assign of extractFromJsonLd's data
StageJsonLd(r) ==
    /\ pc[r] = "jsonld"
    /\ \E fails \in (IF closed[r] THEN {TRUE} ELSE BOOLEAN) :
          StageEnds(r, "jsonld", "json-ld",
                    AfterJsonLd(result[r], extractJsonLd(content[r].scripts, fails),
                                site[r].url))

\* a stage of extractProductData throws: the exception leaves
\* extractProductData and reaches the catch block of the request handler
StageThrows(r, stage) ==
    /\ pc' = [pc EXCEPT ![r] = "catch"]
    /\ calls' = [calls EXCEPT ![r] = Append(@, stage)]
    /\ fatalSeen' = [fatalSeen EXCEPT ![r] = @ \/ closed[r]]
    /\ UNCHANGED <<maxRetries, site, retryCount, closed, content, navFailed, result, critical,
                   emitted, attempts>>

\* stage 2 once extractEmbeddedJson has returned embeddedJson
EmbeddedStage(r, embeddedJson) ==
    IF Truthy(embeddedJson) /\ extractFromEmbeddedJson(embeddedJson, site[r].url) = TypeError
    THEN StageThrows(r, "embedded")
    ELSE StageEnds(r, "embedded", "embedded-json",
                   AfterEmbedded(result[r], embeddedJson, site[r].url))

\* extractProductData, stage 2: extractEmbeddedJson and the merge
StageEmbedded(r) ==
    /\ pc[r] = "embedded"
    /\ \E faults \in EmbeddedFaults :
          EmbeddedStage(r, extractEmbeddedJson(content[r].globals, content[r].dataState,
                               IF closed[r] THEN {patterns[i] : i \in 1..Len(patterns)}
                               ELSE faults,
                               closed[r]))

\* extractProductData, stage 3: extractFromSelectors and the merge
StageSelectors(r) ==
    /\ pc[r] = "selectors"
    /\ \E faults \in SelectorFaults :
          StageEnds(r, "selectors", "selectors",
                    Merge(result[r],
                          extractFromSelectors(content[r].dom, result[r].domain, site[r].url,
                                               IF closed[r] THEN STRING \X STRING ELSE faults),
                          "selectors"))

\* extractProductData's end: getLargestImages over a non-empty image list,
\* and the return
Return(r) ==
    /\ pc[r] = "largest"
    /\ result' = [result EXCEPT ![r].images = IF @ # <<>> THEN getLargestImages(@) ELSE @]
    /\ pc' = [pc EXCEPT ![r] = "push"]
    /\ UNCHANGED <<maxRetries, site, retryCount, closed, content, navFailed, calls, critical,
                   fatalSeen, emitted, attempts>>

\* the request handler after extraction: normalizedData, Actor.pushData and
\* the handler's normal end, which the crawler takes as success
PushData(r) ==
    /\ pc[r] = "push"
    /\ emitted' = [emitted EXCEPT ![r] = Append(@, NormalizedData(result[r]))]
    /\ attempts' = [attempts EXCEPT ![r] = Append(@, [navFailed |-> navFailed[r], ok |-> TRUE])]
    /\ pc' = [pc EXCEPT ![r] = "done"]
    /\ UNCHANGED <<maxRetries, site, retryCount, closed, content, navFailed, result, calls,
                   critical, fatalSeen>>

\* the catch block of the request handler: push the error record, rethrow
Catch(r) ==
    /\ pc[r] = "catch"
    /\ emitted' = [emitted EXCEPT ![r] = Append(@, ErrorRecord(site[r].url))]
    /\ AttemptFails(r)
    /\ UNCHANGED <<maxRetries, site, closed, content, navFailed, result, calls, critical, fatalSeen>>

Next ==
    \/ Start
    \/ \E r \in Requests :
           \/ Dispatch(r)
           \/ PageCrash(r)
           \/ PreNavigation(r)
           \/ Goto(r)
           \/ Settle(r)
           \/ StageJsonLd(r)
           \/ StageEmbedded(r)
           \/ StageSelectors(r)
           \/ Return(r)
           \/ PushData(r)
           \/ Catch(r)

\* the state once the input is read: the entries of startUrls in live are
\* URLs, each of one of the sites, those in invalid are neither a string nor
\* an object with a url, the others are not part of the input; retries is the
\* input's maxRequestRetries
InitEntries(live, invalid, sites, retries) ==
    /\ maxRetries = retries
    /\ \E f \in [live -> sites] :
          site = [r \in Requests |-> IF r \in live THEN f[r] ELSE CHOOSE s \in sites : TRUE]
    /\ pc = [r \in Requests |-> IF r \in live THEN "entry"
                                ELSE IF r \in invalid THEN "invalid" ELSE "absent"]
    /\ retryCount = [r \in Requests |-> 0]
    /\ closed = [r \in Requests |-> FALSE]
    /\ content = [r \in Requests |-> BlankContent]
    /\ navFailed = [r \in Requests |-> "no"]
    /\ result = [r \in Requests |-> NewResult(site[r].url)]
    /\ calls = [r \in Requests |-> <<>>]
    /\ critical = [r \in Requests |-> "null"]
    /\ fatalSeen = [r \in Requests |-> FALSE]
    /\ emitted = [r \in Requests |-> <<>>]
    /\ attempts = [r \in Requests |-> <<>>]

InitWith(live, sites, retries) == InitEntries(live, {}, sites, retries)

\* a run over one URL, any site, with the input maxRequestRetries: 0
Init == InitWith({1}, Sites, 0)

Spec == Init /\ [][Next]_vars

\* the sites of the crawl runs
CrawlSites ==
    {s \in Sites : /\ s.url = PlainUrl
                   /\ s.globals = NoGlobals
                   /\ s.dom \in {BlankDom, ShopDom}
                   /\ s.scripts = <<>>}

\* a run over one URL with the default maxRequestRetries
InitCrawl == InitWith({1}, CrawlSites, maxRequestRetries)

SpecCrawl == InitCrawl /\ [][Next]_vars

-----------------------------------------------------------------------------
(* Pages of unusual shape *)

\* page URLs on the domains with a selector table of their own, and one whose
\* first path segment is a name every object inherits
ZaraUrl == <<"h", "t", "t", "p", "s", ":", "/", "/", "w", "w", "w", ".", "z", "a", "r", "a", ".", "c", "o", "m", "/", "p", "/", "1">>

MangoUrl == <<"h", "t", "t", "p", "s", ":", "/", "/", "m", "a", "n", "g", "o", ".", "c", "o", "m", "/", "p", "/", "1">>

InheritedUrl == <<"h", "t", "t", "p", "s", ":", "/", "/", "s", ".", "c", "o", "/", "c", "o", "n", "s", "t", "r", "u", "c", "t", "o", "r", "/", "1">>

\* the values offers.price and the script-state prices take
OddPrices ==
    {Null, NaN, Num(-500), Num(0), Num(1250), Arr(<<>>), [t |-> "object"],
     Str(<<"-", "5">>),
     Str(<<"a", "b", "c">>),
     Str(<<".">>),
     Str(<<"1", ".", "2", ".", "3">>),
     Str(<<"1", ",", "2", "9", "9", ".", "5", "0", " ", "€">>),
     Str(<<" ", "7", " ">>)}

\* the values offers.priceCurrency and the script-state currencies take
OddCurrencies ==
    {Null, Num(500), Arr(<<>>),
     Str(<<"e", "u", "r">>),
     Str(<<" ", "€", " ">>),
     Str(<<"E", "u", "r", "o">>),
     Str(<<"r", "u", "b", "l", "e">>),
     Str(<<"e", "u">>),
     Str(<<"e", "u", "r", "o", "s">>),
     Str(<<"U", "S", "$">>),
     Str(<<"e", "1", "r">>),
     Str(<<"Ü">>)}

\* the values offers takes
OddOffers ==
    {Null, Num(500), Str(<<"x">>), Arr(<<>>), Arr(<<Null>>), Arr(<<Num(500)>>), [t |-> "object"],
     Arr(<<[t |-> "object", price |-> Num(1250)], Null>>)}
    \cup {[t |-> "object", price |-> p] : p \in OddPrices}
    \cup {[t |-> "object", price |-> Num(1250), priceCurrency |-> c] : c \in OddCurrencies}

\* the values image and images take
OddImages ==
    {Null, Num(500), AJpg, [t |-> "object"], [t |-> "object", url |-> AJpg],
     Arr(<<>>),
     Arr(<<Null, Num(500), [t |-> "object"], [t |-> "object", url |-> Null],
           [t |-> "object", url |-> BJpg], AJpg>>),
     Arr(<<AJpg, AJpg>>),
     Arr(<<Str(<<"/", "i", "/", "s", "_", "w", "5", "0", "0", ".", "j", "p", "g">>), Str(<<"/", "i", "/", "s", "_", "w", "8", "0", "0", ".", "j", "p", "g">>)>>),
     Arr(<<Str(<<"/", "i", "/", "l", "o", "g", "o", ".", "s", "v", "g">>), Str(<<"/", "i", "/", "p", "l", "a", "c", "e", "h", "o", "l", "d", "e", "r", ".", "p", "n", "g">>), Str(<<"/", "i", "/", "i", "c", "o", "n", "-", "x", ".", "p", "n", "g">>), AJpg>>)}

\* structured-data blocks with a name and one field of unusual shape
OddBlocks ==
    {[EmptyBlock EXCEPT !.name = BlueShirt, !.offers = o] : o \in OddOffers}
    \cup {[EmptyBlock EXCEPT !.name = BlueShirt,
                             !.offers = [t |-> "object", price |-> Num(1250)],
                             !.image = i] : i \in OddImages}
    \cup {[EmptyBlock EXCEPT !.name = n] : n \in {Null, Num(500), Str(<<" ", " ">>)}}

\* script-state products with one field of unusual shape
OddProducts ==
    {[EmptyProduct EXCEPT !.name = BlueShirt, !.price = p] : p \in OddPrices}
    \cup {[EmptyProduct EXCEPT !.name = BlueShirt, !.pricing = g] :
             g \in {Null, Num(500), Str(<<"x">>), Arr(<<>>), [t |-> "object"],
                    [t |-> "object", price |-> Num(1250)],
                    [t |-> "object", currentPrice |-> Str(<<"1", "2", ".", "5", "0">>)]}}
    \cup {[EmptyProduct EXCEPT !.name = BlueShirt, !.variants = v] :
             v \in {Null, Num(500), [t |-> "object"], Arr(<<>>), Arr(<<Null>>),
                    Arr(<<Num(500)>>), Arr(<<[t |-> "object"]>>),
                    Arr(<<[t |-> "object", priceValue |-> Num(1250)]>>)}}
    \cup {[EmptyProduct EXCEPT !.name = BlueShirt, !.price = Null,
                                !.pricing = [t |-> "object", price |-> Num(1250)]],
          [EmptyProduct EXCEPT !.name = BlueShirt, !.priceValue = Num(700),
                                !.pricing = [t |-> "object", price |-> Num(1250)]],
          [EmptyProduct EXCEPT !.name = BlueShirt, !.pricing = [t |-> "object"],
                                !.variants = Arr(<<[t |-> "object", price |-> Num(1250)]>>)]}
    \cup {[EmptyProduct EXCEPT !.name = BlueShirt, !.price = Num(1250), !.currency = c] :
             c \in OddCurrencies}
    \cup {[EmptyProduct EXCEPT !.name = BlueShirt, !.price = Num(1250), !.images = i] :
             i \in OddImages}
    \cup {[EmptyProduct EXCEPT !.name = BlueShirt, !.price = Num(1250), !.image = i] :
             i \in OddImages}

\* script states of unusual shape: the product of one of the paths, a
\* products entry that is no array, an empty one, one of null
OddStates ==
    {[EmptyState EXCEPT !.product = pd] : pd \in OddProducts}
    \cup {[EmptyState EXCEPT !.product = pd] : pd \in {Null, Num(500), Str(<<"x">>), Arr(<<>>)}}
    \cup {[EmptyState EXCEPT !.products = ps] :
             ps \in {Null, [t |-> "object"], Arr(<<>>), Arr(<<Null>>),
                     Arr(<<[EmptyProduct EXCEPT !.title = BlueShirt]>>)}}

\* a block that is no Product, with the items of its @graph
GraphBlock(items) == [EmptyBlock EXCEPT !.type = <<"WebPage">>, !.graph = items]

ProductA == [EmptyBlock EXCEPT !.name = Str(<<"A">>)]

ProductB == [EmptyBlock EXCEPT !.name = Str(<<"B">>), !.type = <<"Thing", "Product">>]

\* the script lists of the pages with several blocks
ScriptLists ==
    {<<ProductA, ProductB>>, <<ProductB, ProductA>>,
     <<GraphBlock(<<>>), ProductA>>,
     <<GraphBlock(<<ProductB>>), ProductA>>,
     <<ProductA, GraphBlock(<<ProductB>>)>>,
     <<GraphBlock(<<GraphBlock(<<>>), ProductB, ProductA>>)>>,
     <<GraphBlock(<<Null, ProductB>>), ProductA>>,
     <<GraphBlock(<<ProductB, Null>>)>>,
     <<Unparsable, ProductA>>,
     <<[EmptyBlock EXCEPT !.type = <<"ProductGroup">>], GraphBlock(<<>>)>>}

\* a DOM whose image selector finds a product image and a plain one, and one
\* whose images are found by the lazy-load pass only
ImgDom ==
    [BlankDom EXCEPT
        !.imgs = (".product-image img" :> <<<<"/", "i", "/", "1", "-", "p", ".", "j", "p", "g">>, <<"/", "i", "/", "q", ".", "p", "n", "g">>, <<"/", "i", "/", "l", "o", "g", "o", ".", "s", "v", "g">>, <<"/", "i", "/", "q", ".", "p", "n", "g">>>>),
        !.jsonImages = <<<<"/", "i", "/", "2", "-", "a", "1", ".", "w", "e", "b", "p">>, <<"/", "i", "/", "r", ".", "g", "i", "f">>>>]

LazyDom ==
    [BlankDom EXCEPT
        !.allImgs = <<<<"h", "t", "t", "p", "s", ":", "/", "/", "s", "t", ".", "m", "n", "g", "b", "c", "n", ".", "c", "o", "m", "/", "i", "/", "x", ".", "a", "v", "i", "f">>, <<"h", "t", "t", "p", "s", ":", "/", "/", "s", "t", ".", "m", "n", "g", "b", "c", "n", ".", "c", "o", "m", "/", "i", "/", "3", "-", "p", ".", "j", "p", "g">>, <<"h", "t", "t", "p", "s", ":", "/", "/", "s", "t", "a", "t", "i", "c", ".", "z", "a", "r", "a", ".", "n", "e", "t", "/", "i", "/", "4", "-", "e", "1", ".", "j", "p", "g", "?", "w", "=", "5", "0", "0">>>>]

\* a DOM whose images differ by their size fragment only
SizesDom ==
    [BlankDom EXCEPT
        !.imgs = (".product-image img" :> <<<<"/", "i", "/", "s", "_", "w", "5", "0", "0", ".", "j", "p", "g">>, <<"/", "i", "/", "s", "_", "w", "8", "0", "0", ".", "j", "p", "g">>>>)]

\* a DOM with a currency in a meta tag
MetaDom(c) ==
    [BlankDom EXCEPT !.meta = ("meta[name=\"currency\"]" :> c)]

\* script states that differ in the name of their product
StateNamed(n) == [EmptyState EXCEPT !.product = [EmptyProduct EXCEPT !.name = Str(<<n>>)]]

\* pages for the probes of the script-state reader: two names that resolve; a
\* name that resolves to a string before one that resolves to an object, with
\* a data attribute; a data attribute alone; a data attribute that does not
\* parse
ProbeSites ==
    {[url |-> PlainUrl, scripts |-> <<>>, globals |-> g, dataState |-> ds, dom |-> BlankDom] :
        g \in {[NoGlobals EXCEPT !["window.__PRELOADED_STATE__"] = StateNamed("A"),
                                 !["window.product"] = StateNamed("B")],
               [NoGlobals EXCEPT !["window.INITIAL_STATE"] = Str(<<"x">>),
                                 !["window.__PRELOADED_STATE__"] = StateNamed("A")],
               NoGlobals},
        ds \in {Undef, Unparsable, StateNamed("C")}}

\* URLs for the fallback steps: no digit and no country code in the path; a
\* country code first; digits after letters, a segment of digits alone, and
\* a product pattern
NoDigitUrl == <<"h", "t", "t", "p", "s", ":", "/", "/", "s", ".", "c", "o", "/", "p", "/", "x">>

LocaleUrl == <<"h", "t", "t", "p", "s", ":", "/", "/", "s", ".", "c", "o", "/", "u", "s", "/", "x">>

MixedUrl == <<"h", "t", "t", "p", "s", ":", "/", "/", "s", ".", "c", "o", "/", "a", "b", "1", "2", "c", "d", "3", "4", "5", "/", "9">>

NumericUrl == <<"h", "t", "t", "p", "s", ":", "/", "/", "s", ".", "c", "o", "/", "x", "/", "1", "2", "3", "4", "5", "6", "7">>

PatternUrl == <<"h", "t", "t", "p", "s", ":", "/", "/", "s", ".", "c", "o", "/", "t", "e", "e", "-", "p", "0", "8", "9", "7", "/", "y">>

\* an element with a text and no attribute, and one with one attribute
TextEl(text) == [text |-> Str(text), attrs |-> NoEntries]

AttrEl(name, value) == [text |-> Str(<<>>), attrs |-> (name :> Str(value))]

\* DOMs with any of the currency sources: a price text without or with a
\* currency sign, a currency meta tag, a currency in the script-state globals
CurrencyDoms ==
    {[BlankDom EXCEPT !.els = e, !.meta = m, !.jsonCurrency = j] :
        e \in {NoEntries, ".price" :> TextEl(<<"1", "2">>), ".price" :> TextEl(<<"€", " ", "9">>)},
        m \in {NoEntries, "meta[name=\"currency\"]" :> Str(<<"g", "b", "p">>)},
        j \in {Null, Str(<<"c", "h", "f">>)}}

\* DOMs of zara.com, whose table has currency selectors: a currency
\* attribute, with or without a currency meta tag
ZaraCurrencyDoms ==
    {[BlankDom EXCEPT !.els = "[data-currency]" :> AttrEl("data-currency", <<"p", "l", "n">>), !.meta = m] :
        m \in {NoEntries, "meta[name=\"currency\"]" :> Str(<<"g", "b", "p">>)}}

\* DOMs with any of the sku sources: an element of the sku selectors, a sku
\* meta tag, a sku in the script-state globals, an element of the
\* data-attribute probe
SkuDoms ==
    {[BlankDom EXCEPT !.els = e1 @@ e2, !.meta = m, !.jsonSku = j] :
        e1 \in {NoEntries, ".sku" :> TextEl(<<"S", "1">>)},
        e2 \in {NoEntries, SkuProbe :> AttrEl("data-product-code", <<"A", "1">>)},
        m \in {NoEntries, "meta[name=\"product:sku\"]" :> Str(<<"M", "1">>)},
        j \in {Null, Str(<<"J", "1">>)}}

\* a DOM with two title elements and two price elements
TwoTitlesDom ==
    [BlankDom EXCEPT
        !.els = ("h1" :> TextEl(<<"H">>)) @@ (".product-title" :> TextEl(<<"T">>))
                @@ (".price" :> TextEl(<<"$", "5">>)) @@ (".product-price" :> TextEl(<<"7">>))]

\* the pages for the fallback steps of the Selector-Based Reader
FallbackSites ==
    {[url |-> NoDigitUrl, scripts |-> <<>>, globals |-> NoGlobals, dataState |-> Undef,
      dom |-> TwoTitlesDom]}
    \cup
    {[url |-> u, scripts |-> <<>>, globals |-> NoGlobals, dataState |-> Undef, dom |-> d] :
        u \in {NoDigitUrl, LocaleUrl}, d \in CurrencyDoms}
    \cup
    {[url |-> ZaraUrl, scripts |-> <<>>, globals |-> NoGlobals, dataState |-> Undef, dom |-> d] :
        d \in ZaraCurrencyDoms}
    \cup
    {[url |-> u, scripts |-> <<>>, globals |-> NoGlobals, dataState |-> Undef, dom |-> d] :
        u \in {NoDigitUrl, PlainUrl}, d \in SkuDoms}
    \cup
    {[url |-> u, scripts |-> <<>>, globals |-> NoGlobals, dataState |-> Undef,
      dom |-> [BlankDom EXCEPT !.meta = "meta[name=\"product:sku\"]" :> Str(<<"M", "1">>)]] :
        u \in {MixedUrl, NumericUrl, PatternUrl}}

\* the pages of unusual shape: one source of data each
ShapeSites ==
    {[url |-> PlainUrl, scripts |-> <<b>>, globals |-> NoGlobals, dataState |-> Undef,
      dom |-> BlankDom] : b \in OddBlocks}
    \cup
    {[url |-> PlainUrl, scripts |-> <<>>,
      globals |-> [NoGlobals EXCEPT !["window.__PRELOADED_STATE__"] = st],
      dataState |-> Undef, dom |-> BlankDom] : st \in OddStates}
    \cup
    {[url |-> PlainUrl, scripts |-> sc, globals |-> NoGlobals, dataState |-> Undef,
      dom |-> BlankDom] : sc \in ScriptLists}
    \cup
    {[url |-> u, scripts |-> <<>>, globals |-> NoGlobals, dataState |-> Undef, dom |-> d] :
        u \in {PlainUrl, ZaraUrl, MangoUrl}, d \in {ImgDom, LazyDom, SizesDom}}
    \cup
    {[url |-> PlainUrl, scripts |-> <<>>, globals |-> NoGlobals, dataState |-> Undef,
      dom |-> MetaDom(c)] : c \in OddCurrencies \ {Null, Num(500), Arr(<<>>)}}
    \cup
    {[url |-> InheritedUrl, scripts |-> <<>>, globals |-> NoGlobals, dataState |-> Undef,
      dom |-> d] : d \in {BlankDom, ShopDom}}
    \cup ProbeSites
    \cup FallbackSites

\* a run over one URL of a page of unusual shape, without retries
InitShapes == InitWith({1}, ShapeSites, 0)

SpecShapes == InitShapes /\ [][Next]_vars

\* the pages of the runs over two entries: one that the structured data
\* answers in full, one that takes all three readers
PairSites ==
    {[url |-> SizedUrl,
      scripts |-> <<[EmptyBlock EXCEPT !.name = BlueShirt,
                        !.offers = [t |-> "object", price |-> Num(1250), priceCurrency |-> Eur],
                        !.image = Arr(<<AJpg, BJpg>>)]>>,
      globals |-> NoGlobals, dataState |-> Undef, dom |-> BlankDom],
     [url |-> PlainUrl, scripts |-> <<>>, globals |-> NoGlobals, dataState |-> Undef,
      dom |-> ShopDom]}

\* a run over two entries of startUrls, each a URL of one of the pages or an
\* invalid entry
InitRun ==
    \E invalid \in SUBSET Requests :
        InitEntries(Requests \ invalid, invalid, PairSites, 0)

SpecRun == InitRun /\ [][Next]_vars

-----------------------------------------------------------------------------
(* The coordinator's contract *)

\* the merged fields of a record
MergedFields == {"title", "description", "price", "currency", "sku", "images"}

\* a field of a record is populated: non-empty for images, non-null for the rest
Populated(res, field) ==
    IF field = "images" THEN res.images # <<>> ELSE res[field] # Null

\* request r is at a merge stage (the script-state or the selector stage)
AtMerge(r) == pc[r] \in {"embedded", "selectors"}

\* extractProductData has returned a record for request r
Returned(r) == pc[r] \in {"push", "done"}

\* C1: the script-state merge and the selector merge never overwrite a
\* populated field: a field that is populated before a merge step holds the
\* same value after it.
C1_MergeKeepsPopulated ==
    [][\A r \in Requests : \A field \in MergedFields :
          AtMerge(r) /\ Populated(result[r], field)
              => result'[r][field] = result[r][field]]_vars

\* C2: in a returned record the provenance names the first reader, in stage
\* order, that contributed a non-null title or price; a reader that
\* contributed neither is named only if no reader contributed them.
C2_ProvenanceIsFirstContributor ==
    \A r \in Requests :
        Returned(r) /\ critical[r] # "null" => result[r].detectedApi = critical[r]

\* the orders in which one invocation may have called the readers
ReaderOrders ==
    {<<>>, <<"jsonld">>, <<"jsonld", "embedded">>, <<"jsonld", "selectors">>,
     <<"jsonld", "embedded", "selectors">>}

\* C3: within one invocation the readers are called in the order
\* structured-data, script-state, selectors, each at most once, the
\* structured-data reader first, and none again after a later one started.
C3_ReadersInOrder ==
    \A r \in Requests :
        /\ calls[r] \in ReaderOrders
        /\ Returned(r) => calls[r] # <<>>

\* C3's case: an invocation that called all three readers has returned
C3_AllThreeCalled ==
    \E r \in Requests :
        Returned(r) /\ calls[r] = <<"jsonld", "embedded", "selectors">>

\* C4: the script-state reader is invoked if and only if title is null or
\* price is null after the structured-data stage.
C4_EmbeddedIffCriticalNull ==
    \A r \in Requests :
        calls[r] = <<"jsonld">> /\ pc[r] \in {"embedded", "selectors", "largest"} =>
            (pc[r] = "embedded" <=> (result[r].title = Null \/ result[r].price = Null))

\* C5: the selector reader is invoked if and only if title is null or price
\* is null or images is empty after the script-state stage.
C5_SelectorsIffMissing ==
    \A r \in Requests :
        /\ calls[r] \in {<<"jsonld">>, <<"jsonld", "embedded">>}
        /\ pc[r] \in {"selectors", "largest"}
        => (pc[r] = "selectors" <=>
               (result[r].title = Null \/ result[r].price = Null \/ result[r].images = <<>>))

\* the block of the example: offers.price "29.99", offers.priceCurrency
\* "EUR", image ["a.jpg", "b.jpg"]
IsExampleBlock(b) ==
    /\ b.t = "object"
    /\ b.offers = [t |-> "object", price |-> Str(<<"2", "9", ".", "9", "9">>),
                   priceCurrency |-> Eur]
    /\ b.image = Arr(<<AJpg, BJpg>>)

\* the two image references of the example made absolute against the page
\* URL (the page URLs end in a one-character segment)
ExampleImages(url) ==
    <<SubSeq(url, 1, Len(url) - 1) \o AJpg.v, SubSeq(url, 1, Len(url) - 1) \o BJpg.v>>

\* C6 as stated: for a page whose structured-data block is the example's,
\* the returned record has price 29.99, currency EUR, the two absolute image
\* URLs in order and provenance json-ld, and only the structured-data reader
\* was invoked.
C6_ExampleAsStated ==
    \A r \in Requests :
        Returned(r) /\ IsExampleBlock(result[r].jsonLd) =>
            /\ result[r].price = Num(2999)
            /\ result[r].currency = Eur
            /\ result[r].images = ExampleImages(site[r].url)
            /\ result[r].detectedApi = "json-ld"
            /\ calls[r] = <<"jsonld">>

\* C6, amended: when the example's block also has a non-blank name, the
\* returned record has price 29.99, currency EUR, provenance json-ld, only
\* the structured-data reader was invoked, and the images are the two
\* absolute URLs after the size upgrade: the absolute URLs themselves under
\* the plain page URL, with the size fragment "_xl" cut out of their path
\* under the page URL that holds one.
C6_ExampleWithName ==
    \A r \in Requests :
        Returned(r) /\ IsExampleBlock(result[r].jsonLd) /\ HasText(result[r].jsonLd.name) =>
            /\ result[r].price = Num(2999)
            /\ result[r].currency = Eur
            /\ result[r].images = getLargestImages(ExampleImages(site[r].url))
            /\ site[r].url = PlainUrl => result[r].images = ExampleImages(PlainUrl)
            /\ site[r].url = SizedUrl =>
                   result[r].images =
                       <<<<"h", "t", "t", "p", "s", ":", "/", "/", "s", ".", "c", "o", "/", "t",
                           "/", "a", ".", "j", "p", "g">>,
                         <<"h", "t", "t", "p", "s", ":", "/", "/", "s", ".", "c", "o", "/", "t",
                           "/", "b", ".", "j", "p", "g">>>>
            /\ result[r].detectedApi = "json-ld"
            /\ calls[r] = <<"jsonld">>

\* C6's case: the record for a page with the example's block and a name, under
\* the page URL with a size fragment, has been pushed
C6_ExampleReturned ==
    \E r \in Requests :
        /\ pc[r] = "done"
        /\ IsExampleBlock(result[r].jsonLd)
        /\ HasText(result[r].jsonLd.name)
        /\ site[r].url = SizedUrl

-----------------------------------------------------------------------------
(* The request handler's contract *)

\* the crawler is through with request r
Finished(r) == pc[r] \in {"done", "failed"}

\* a record with every field null, no image and an error annotation
IsErrorRecord(rec) ==
    /\ rec.error
    /\ \A field \in {"title", "description", "price", "currency", "sku"} : rec[field] = Null
    /\ rec.images = <<>>

\* C7: for each processed URL exactly one record is emitted, counting all
\* attempts of the URL together.
C7_OneRecordPerUrl ==
    \A r \in Requests : Finished(r) => Len(emitted[r]) = 1

\* C8: no URL is dropped silently: a URL the crawler is through with has at
\* least one record, and a URL whose attempts all failed has an all-null
\* record with an error annotation.
C8_NoUrlDropped ==
    \A r \in Requests :
        /\ Finished(r) => emitted[r] # <<>>
        /\ pc[r] = "failed" => \E i \in 1..Len(emitted[r]) : IsErrorRecord(emitted[r][i])

\* C9: a navigation failure makes its attempt fail towards the crawler: no
\* attempt in which page.goto rejected is reported as successful.
C9_NavigationFailureFailsAttempt ==
    \A r \in Requests : \A i \in 1..Len(attempts[r]) :
        attempts[r][i].navFailed # "no" => ~attempts[r][i].ok

\* C10: a fatal failure of a page call during extractProductData is raised
\* to the caller: extractProductData returns no record after one.
C10_FatalErrorsRaised ==
    \A r \in Requests : ~(fatalSeen[r] /\ Returned(r))


-----------------------------------------------------------------------------
(* Data shapes, images and the normalizers in the returned record *)

\* C11: extractProductData never raises for a data-shape reason: whatever the
\* shape of the structured-data block and of the script-state object, while
\* the page is open control reaches the handler's catch block only from
\* outside extractProductData (before any reader was invoked), never out of
\* one of its stages.
C11_NeverRaisesForShape ==
    \A r \in Requests : pc[r] = "catch" /\ ~closed[r] => calls[r] = <<>>


\* the fragments of the universal image filter
UnwantedFragments ==
    {<<"t", "r", "a", "n", "s", "p", "a", "r", "e", "n", "t", "-", "b", "a", "c", "k", "g", "r",
       "o", "u", "n", "d">>,
     <<"t", "r", "a", "n", "s", "p", "a", "r", "e", "n", "t", ".", "p", "n", "g">>,
     <<"p", "l", "a", "c", "e", "h", "o", "l", "d", "e", "r">>,
     <<"/", "i", "c", "o", "n">>, <<"i", "c", "o", "n", "o", "s">>, <<"i", "c", "o", "n", "-">>}

\* url is an SVG or holds a placeholder, transparent or icon fragment
Unwanted(url) ==
    \/ EndsWith(ToLowerCase(url), <<".", "s", "v", "g">>)
    \/ \E x \in UnwantedFragments : Includes(ToLowerCase(url), x)

\* C12: in every returned record, images holds no URL ending in .svg and no
\* URL with a placeholder, transparent or icon fragment, whichever reader
\* supplied the images.
C12_NoUnwantedImages ==
    \A r \in Requests :
        Returned(r) => \A i \in 1..Len(result[r].images) : ~Unwanted(result[r].images[i])


\* no URL occurs twice in urls
NoDuplicates(urls) == \A i, j \in 1..Len(urls) : urls[i] = urls[j] => i = j

\* C13: the images of a returned record hold no duplicate URL and keep the
\* discovery order, also after the image-size upgrade: the step that applies
\* getLargestImages and returns leaves a list without duplicates whose i-th
\* URL is the upgrade of the i-th URL discovered.
C13_ImagesDistinctInOrder ==
    [][\A r \in Requests :
          pc[r] = "largest" /\ pc'[r] = "push" =>
              /\ NoDuplicates(result'[r].images)
              /\ Len(result'[r].images) = Len(result[r].images)
              /\ \A i \in 1..Len(result[r].images) :
                     result'[r].images[i] = LargestUrl(result[r].images[i])]_vars


\* null or a non-negative number
IsPrice(x) == x = Null \/ (IsNum(x) /\ x.v >= 0)

\* the raw prices the readers of the page hand to extractPrice: the price of
\* the offers of its structured-data blocks and the price of the product of
\* its script state
PricesOn(page) ==
    {Get(page.scripts[i].offers, "price") :
        i \in {k \in 1..Len(page.scripts) : page.scripts[k].t = "object"}}
    \cup {Get(Get(page.globals[g], "product"), "price") : g \in DOMAIN page.globals}

\* C14: for every input, extractPrice returns null or a non-negative finite
\* number, never NaN, a negative number or a string: so it does for every raw
\* price of a page the readers have read, and so is the price of the record.
C14_PriceNullOrNonNegative ==
    \A r \in Requests :
        calls[r] # <<>> =>
            /\ \A p \in PricesOn(content[r]) : IsPrice(extractPrice(p))
            /\ IsPrice(result[r].price)


\* null or a string of three upper-case letters A-Z
IsCurrencyCode(x) ==
    x = Null \/ (IsStr(x) /\ Len(x.v) = 3 /\ \A i \in 1..Len(x.v) : x.v[i] \in UpperLetters)

\* the raw currencies the readers of the page hand to normalizeCurrency: the
\* priceCurrency of the offers of its structured-data blocks, the currency of
\* the product of its script state, the contents of its meta tags
CurrenciesOn(page) ==
    {Get(page.scripts[i].offers, "priceCurrency") :
        i \in {k \in 1..Len(page.scripts) : page.scripts[k].t = "object"}}
    \cup {Get(Get(page.globals[g], "product"), "currency") : g \in DOMAIN page.globals}
    \cup {page.dom.meta[m] : m \in DOMAIN page.dom.meta}

\* C15: normalizeCurrency returns null or a code of three upper-case letters
\* for every input, and the currency of every returned record is null or such
\* a code, whichever path set it.
C15_CurrencyNullOrCode ==
    \A r \in Requests :
        /\ calls[r] # <<>> =>
               \A c \in CurrenciesOn(content[r]) : IsCurrencyCode(normalizeCurrency(c))
        /\ Returned(r) => IsCurrencyCode(result[r].currency)


-----------------------------------------------------------------------------
(* The image filter of the Selector-Based Reader *)

\* the selector stage of request r has just run on an open page, as the only
\* source of the record's images
SelectorsSupplied(r) ==
    /\ pc[r] = "largest"
    /\ calls[r] = <<"jsonld", "embedded", "selectors">>
    /\ ~closed[r]
    /\ content[r].scripts = <<>>
    /\ content[r].globals = NoGlobals

\* the lazy-load pass runs for the domain, given the images found before it
LazyPassRuns(domain, images) ==
    \/ domain = Str(Zara) /\ Len(images) < 6
    \/ domain \in {Str(ShopMango), Str(Mango)} /\ images = <<>>

\* the entries of a sequence
Range(seq) == {seq[i] : i \in 1..Len(seq)}

\* the images the reader has before the lazy-load pass
ImagesBeforeLazy(dom, domain, baseUrl) ==
    WithJsonImages(
        Dedupe(ResolveAndFilter(AllImageUrls(dom, SelectorsFor(domain).images, {}, 1),
                                baseUrl, domain, FALSE)),
        dom, domain, baseUrl, {})

\* the image URLs the image selectors and the in-page JSON search collect on
\* the page, resolved
CollectedImages(dom, domain, baseUrl) ==
    {resolveUrl(Str(src), baseUrl).v :
        src \in Range(AllImageUrls(dom, SelectorsFor(domain).images, {}, 1))
                \cup Range(dom.jsonImages)}

\* the image URLs the lazy-load pass collects, when it runs
LazyCollected(dom, domain, baseUrl) ==
    IF LazyPassRuns(domain, ImagesBeforeLazy(dom, domain, baseUrl))
    THEN {resolveUrl(Str(src), baseUrl).v : src \in Range(CdnImages(dom.allImgs))}
    ELSE {}

\* C16 as stated: under a domain other than zara.com, every image URL the
\* Selector-Based Reader collects that passes the universal filters is among
\* the images it returns, be it rejected under zara.com or not.
C16_AdmittedOffZara ==
    \A r \in Requests :
        SelectorsSupplied(r) /\ result[r].domain # Str(Zara) =>
            \A u \in CollectedImages(content[r].dom, result[r].domain, site[r].url)
                     \cup LazyCollected(content[r].dom, result[r].domain, site[r].url) :
                ~Unwanted(u) => u \in Range(result[r].images)

\* C16, amended: under a domain other than zara.com, every image URL that the
\* image selectors or the in-page JSON search collect and that passes the
\* universal filters is among the images returned; a URL that only the
\* lazy-load pass collects (it runs, off zara.com, for the Mango domains with no
\* image so far) is among them if and only if it also has one of the
\* extensions jpg, jpeg, png, webp, gif of the Mango rule.
C16_AdmittedOffZaraButMangoLazy ==
    \A r \in Requests :
        SelectorsSupplied(r) /\ result[r].domain # Str(Zara) =>
            /\ \A u \in CollectedImages(content[r].dom, result[r].domain, site[r].url) :
                   ~Unwanted(u) => u \in Range(result[r].images)
            /\ \A u \in LazyCollected(content[r].dom, result[r].domain, site[r].url) :
                   ~Unwanted(u) =>
                       (u \in Range(result[r].images)
                          <=> HasExtension(ToLowerCase(u),
                                           ZaraExtensions \cup {<<"g", "i", "f">>}))

\* C16's case: off zara.com the reader has returned an image URL that the
\* Zara rules reject
C16_ZaraRejectAdmitted ==
    \E r \in Requests :
        /\ SelectorsSupplied(r)
        /\ result[r].domain # Str(Zara)
        /\ \E u \in Range(result[r].images) : ~KeepImage(ToLowerCase(u), Str(Zara), FALSE)

-----------------------------------------------------------------------------
(* The merge steps of extractProductData *)

\* what extractFromEmbeddedJson can return on the page of request r
EmbeddedOutputs(r) ==
    {extractFromEmbeddedJson(e, site[r].url) :
        e \in {x \in {extractEmbeddedJson(content[r].globals, content[r].dataState, f, FALSE) :
                         f \in EmbeddedFaults} : Truthy(x)}}
    \ {TypeError}

\* what extractFromSelectors can return on the page of request r
SelectorOutputs(r) ==
    {extractFromSelectors(content[r].dom, result[r].domain, site[r].url, f) :
        f \in SelectorFaults}

\* the record after is the merge of data into the record before, and merging
\* data again leaves it as it is
MergedOnceAndForAll(before, after, data, api) ==
    after = Merge(before, data, api) => Merge(after, data, api) = after

\* C17: when the script-state merge or the selector merge of
\* extractProductData has made a record from a reader's output, applying the
\* same merge with the same output to that record leaves every field and the
\* provenance as they are.
C17_MergeIdempotent ==
    [][\A r \in Requests :
          calls'[r] = Append(calls[r], pc[r]) /\ pc'[r] # "catch" =>
              /\ pc[r] = "embedded" =>
                     \A data \in EmbeddedOutputs(r) :
                         MergedOnceAndForAll(result[r], result'[r], data, "embedded-json")
              /\ pc[r] = "selectors" =>
                     \A data \in SelectorOutputs(r) :
                         MergedOnceAndForAll(result[r], result'[r], data, "selectors")]_vars

\* C17's case: the script-state merge and then the selector merge have each
\* given the record a field
C17_BothMergesActed ==
    \E r \in Requests :
        /\ pc[r] = "largest"
        /\ calls[r] = <<"jsonld", "embedded", "selectors">>
        /\ result[r].detectedApi = "embedded-json"
        /\ result[r].jsonLd = Null
        /\ Truthy(result[r].title)
        /\ result[r].images \in
              {d.images : d \in {x \in SelectorOutputs(r) : x.images # <<>>}}
        /\ \A d \in EmbeddedOutputs(r) : d.images = <<>>

-----------------------------------------------------------------------------
(* Invocations of extractProductData side by side *)

\* extractProductData run alone on a page showing shown: the record after
\* stage 1, after stage 2, after stage 3, and the record returned
AloneJsonLd(shown, url, fails) ==
    AfterJsonLd(NewResult(url), extractJsonLd(shown.scripts, fails), url)

AloneEmbedded(res, shown, url, faults) ==
    IF NeedsEmbedded(res)
    THEN AfterEmbedded(res, extractEmbeddedJson(shown.globals, shown.dataState, faults, FALSE),
                       url)
    ELSE res

AloneSelectors(res, shown, url, faults) ==
    IF NeedsSelectors(res)
    THEN Merge(res, extractFromSelectors(shown.dom, res.domain, url, faults), "selectors")
    ELSE res

AloneReturn(res) ==
    [res EXCEPT !.images = IF @ # <<>> THEN getLargestImages(@) ELSE @]

\* the records extractProductData can return when it runs alone on a page
\* showing shown and no reader throws
AloneRecords(shown, url) ==
    {AloneReturn(AloneSelectors(AloneEmbedded(AloneJsonLd(shown, url, fails),
                                              shown, url, ef),
                                shown, url, sf)) :
        fails \in BOOLEAN,
        ef \in {f \in EmbeddedFaults :
                   extractFromEmbeddedJson(
                       extractEmbeddedJson(shown.globals, shown.dataState, f, FALSE), url)
                   # TypeError},
        sf \in SelectorFaults}

\* request r is inside extractProductData
Extracting(r) == pc[r] \in {"jsonld", "embedded", "selectors", "largest"}

\* C18: invocations of extractProductData for different pages do not
\* interfere: a step of one invocation leaves the record, the page and the
\* progress of every other request as they are, and under every interleaving
\* an invocation whose page stays open returns a record it can return when it
\* runs alone on that page.
C18_NoInterference ==
    /\ [](\A r \in Requests :
             pc[r] = "push" /\ ~closed[r] => result[r] \in AloneRecords(content[r], site[r].url))
    /\ [][\A r \in Requests :
             Extracting(r) /\ pc'[r] # pc[r] =>
                 \A q \in Requests \ {r} :
                     /\ result'[q] = result[q]
                     /\ content'[q] = content[q]
                     /\ calls'[q] = calls[q]
                     /\ critical'[q] = critical[q]
                     /\ pc'[q] = pc[q]]_vars

\* C18's case: an invocation has returned its record while another one, for
\* another page, is between two of its readers
C18_SideBySide ==
    \E r, q \in Requests :
        /\ r # q
        /\ site[r] # site[q]
        /\ pc[r] = "push" /\ ~closed[r]
        /\ Truthy(result[r].title)
        /\ pc[q] \in {"embedded", "selectors"} /\ ~closed[q]
        /\ calls[q] # <<>>


-----------------------------------------------------------------------------
(* The entries of startUrls *)

\* C19: an invalid entry of startUrls is skipped: the run does not abort
\* because of it, and every valid entry beside it is queued for the crawler
\* when the run starts.
C19_InvalidEntrySkipped ==
    [][\A r \in Requests :
          pc[r] = "entry" /\ pc'[r] # pc[r] => pc'[r] = "queued"]_vars


-----------------------------------------------------------------------------
(* The block extractJsonLd selects *)

\* the blocks of the page that parse, in document order
ParsedBlocks(page) == SelectSeq(page.scripts, LAMBDA sc : sc.t # "unparsable")

\* the blocks whose @type equals or includes "Product", in document order
DirectProducts(blocks) == SelectSeq(blocks, LAMBDA b : IsProductType(b.type))

\* C20: the block extractJsonLd selects is the first block, in document
\* order, whose @type equals or includes "Product", whenever the page has
\* such a block; a Product of a @graph is selected only on a page with none.
C20_DirectBlockBeforeGraph ==
    \A r \in Requests :
        /\ calls[r] # <<>>
        /\ result[r].jsonLd # Null
        /\ DirectProducts(ParsedBlocks(content[r])) # <<>>
        => result[r].jsonLd = Head(DirectProducts(ParsedBlocks(content[r])))


-----------------------------------------------------------------------------
(* Malformed blocks, probe order and fall-through in the readers *)

\* x is a block whose @type equals or includes "Product"
IsProductBlock(x) == x.t = "object" /\ IsProductType(x.type)

\* C21: whenever the page holds a well-formed Product block, extractJsonLd
\* (its page call succeeding) returns a Product block, whatever the other
\* blocks of the page hold.
C21_MalformedBlockSkipped ==
    \A r \in Requests :
        calls[r] # <<>> /\ DirectProducts(ParsedBlocks(content[r])) # <<>> =>
            IsProductBlock(extractJsonLd(content[r].scripts, FALSE))


\* the indices of the names that resolve to a non-null object when the
\* probes of the names in broken fail
Resolving(globals, broken) ==
    {i \in 1..Len(patterns) :
        /\ patterns[i] \notin broken
        /\ globals[patterns[i]].t \in {"object", "array"}}

\* the least index of a non-empty set of indices
Least(indices) == CHOOSE i \in indices : \A j \in indices : i <= j

\* what the data-attribute fallback gives
FallbackValue(dataState) ==
    IF dataState.t \in {"undefined", "unparsable"} THEN Null ELSE dataState

\* the rule of C22 for one page and one set of failing probes
FirstNameWins(globals, dataState, broken) ==
    IF Resolving(globals, broken) # {}
    THEN /\ extractEmbeddedJson(globals, dataState, broken, FALSE)
              = globals[patterns[Least(Resolving(globals, broken))]]
         /\ EmbeddedProbes(globals, broken)
              = SubSeq(patterns, 1, Least(Resolving(globals, broken)))
    ELSE /\ extractEmbeddedJson(globals, dataState, broken, FALSE) = FallbackValue(dataState)
         /\ EmbeddedProbes(globals, broken) = Append(patterns, DataStateProbe)

\* C22: extractEmbeddedJson evaluates the global-state names in list order
\* and returns the value of the first one that resolves to a non-null object;
\* it evaluates no name after that one, and it consults the data-attribute
\* fallback only when no name resolved.
C22_FirstNameWins ==
    \A r \in Requests :
        calls[r] # <<>> =>
            \A faults \in EmbeddedFaults :
                FirstNameWins(content[r].globals, content[r].dataState, faults)

\* C22's case: the script-state reader has run on a page where two names
\* resolve to objects, and the record has the title of the first one's product
C22_TwoNamesResolve ==
    \E r \in Requests :
        /\ "embedded" \in Range(calls[r])
        /\ Cardinality(Resolving(content[r].globals, {})) >= 2
        /\ result[r].title = Str(<<"A">>)


\* the product sub-object the script-state reader finds on a page, with no
\* failing probe; Undef for none
ProductOn(page) ==
    IF extractEmbeddedJson(page.globals, page.dataState, {}, FALSE).t = "object"
    THEN ProductOf(extractEmbeddedJson(page.globals, page.dataState, {}, FALSE))
    ELSE Undef

\* the first entry of variants, Undef for none
FirstVariant(product) ==
    IF Get(product, "variants").t = "array" /\ Get(product, "variants").v # <<>>
    THEN Get(product, "variants").v[1]
    ELSE Undef

\* the price candidates of C23, in priority order
PriceCandidates(product) ==
    <<Get(product, "price"), Get(product, "priceValue"), Get(product, "finalPrice"),
      Get(Get(product, "pricing"), "finalPrice"), Get(Get(product, "pricing"), "price"),
      Get(Get(product, "pricing"), "currentPrice"),
      Get(FirstVariant(product), "price")>>

\* a candidate that yields a price
Usable(x) == Truthy(x) /\ extractPrice(x) # Null

\* the price of the first usable candidate, null for none
RECURSIVE FirstUsablePrice(_)
FirstUsablePrice(candidates) ==
    IF candidates = <<>> THEN Null
    ELSE IF Usable(Head(candidates)) THEN extractPrice(Head(candidates))
    ELSE FirstUsablePrice(Tail(candidates))

\* C23: the price extractFromEmbeddedJson returns is that of the first usable
\* value among product.price, priceValue, finalPrice, then pricing.finalPrice,
\* pricing.price, pricing.currentPrice, then the first variant's price; a key
\* that is present and yields no price does not stop the fall-through.
C23_PriceFallsThrough ==
    \A r \in Requests :
        /\ calls[r] # <<>>
        /\ ProductOn(content[r]).t = "object"
        /\ EmbeddedPrice(ProductOn(content[r])) # TypeError
        => EmbeddedPrice(ProductOn(content[r]))
             = FirstUsablePrice(PriceCandidates(ProductOn(content[r])))


-----------------------------------------------------------------------------
(* The fallback chains of the Selector-Based Reader *)

\* what a step of a chain gives by itself: its value when it finds one
StepYield(st) == IF st.guard /\ st.cond THEN st.value ELSE Null

\* the names of the steps of a chain, in order
StepNames(steps) == [i \in 1..Len(steps) |-> steps[i].name]

\* the rule of C24 and C25 for a chain: its steps from index from on are
\* entered exactly when no earlier step gave a value, the steps entered are in
\* the order of the chain, and the field keeps the value of the first step
\* that set it
FallbackRule(steps, from) ==
    /\ \A k \in from..Len(steps) :
           steps[k].name \in Range(StepsAttempted(steps))
             <=> \A j \in 1..(k - 1) : ~Truthy(StepYield(steps[j]))
    /\ StepsAttempted(steps)
         = SelectSeq(StepNames(steps), LAMBDA n : n \in Range(StepsAttempted(steps)))
    /\ \A k \in 1..Len(steps) :
           Truthy(FallbackChain(SubSeq(steps, 1, k)))
             => FallbackChain(steps) = FallbackChain(SubSeq(steps, 1, k))

\* the currency steps of the reader on the page of request r when the probes
\* in faults fail
CurrencyChainOf(r, faults) ==
    CurrencyChain(content[r].dom, SelectorsFor(result[r].domain), site[r].url, faults,
                  FirstText(content[r].dom, "price", SelectorsFor(result[r].domain).price,
                            faults, 1))

\* C24: the currency steps of extractFromSelectors are, in this order, the
\* price element, the currency selector list, the meta tags, the country
\* table on the first path segment of the URL, the script-state globals; each
\* of the last three is attempted only if the currency is still null after
\* all earlier steps, and no step replaces a currency an earlier step set.
C24_CurrencyFallbackOrder ==
    \A r \in Requests :
        calls[r] # <<>> =>
            \A faults \in SelectorFaults :
                /\ StepNames(CurrencyChainOf(r, faults))
                     = <<"price", "selectors", "meta", "url", "json">>
                /\ FallbackRule(CurrencyChainOf(r, faults), 3)
                /\ extractFromSelectors(content[r].dom, result[r].domain, site[r].url,
                                        faults).currency
                     = FallbackChain(CurrencyChainOf(r, faults))

\* C24's case: the reader has given the record the currency of the meta tags
\* on a page whose URL locale and script-state globals name other currencies
C24_MetaBeforeUrlAndJson ==
    \E r \in Requests :
        /\ pc[r] = "largest"
        /\ "selectors" \in Range(calls[r])
        /\ result[r].currency = Str(<<"G", "B", "P">>)
        /\ StepYield(CurrencyChainOf(r, {})[4]) = Str(<<"U", "S", "D">>)
        /\ StepYield(CurrencyChainOf(r, {})[5]) = Str(<<"C", "H", "F">>)


\* the sku steps of the reader on the page of request r when the probes in
\* faults fail
SkuChainOf(r, faults) ==
    SkuChain(content[r].dom, SelectorsFor(result[r].domain), site[r].url, faults)

\* C25: the sku steps of extractFromSelectors are, in this order, the sku
\* selector list, the URL path patterns, the meta tags, the script-state
\* globals, the data-attribute probe; each of the last four is attempted only
\* if the sku is still null after all earlier steps, and no step replaces a
\* sku an earlier step set.
C25_SkuFallbackOrder ==
    \A r \in Requests :
        calls[r] # <<>> =>
            \A faults \in SelectorFaults :
                /\ StepNames(SkuChainOf(r, faults))
                     = <<"selectors", "url", "meta", "json", "attr">>
                /\ FallbackRule(SkuChainOf(r, faults), 2)
                /\ extractFromSelectors(content[r].dom, result[r].domain, site[r].url,
                                        faults).sku
                     = FallbackChain(SkuChainOf(r, faults))

\* C25's case: the reader has given the record the sku of the meta tags on a
\* page whose URL has no digit and whose script-state globals and data
\* attributes name other skus
C25_MetaBeforeJsonAndAttr ==
    \E r \in Requests :
        /\ pc[r] = "largest"
        /\ "selectors" \in Range(calls[r])
        /\ result[r].sku = Str(<<"M", "1">>)
        /\ StepsAttempted(SkuChainOf(r, {})) = <<"selectors", "url", "meta">>
        /\ StepYield(SkuChainOf(r, {})[4]) = Str(<<"J", "1">>)
        /\ StepYield(SkuChainOf(r, {})[5]) = Str(<<"A", "1">>)


-----------------------------------------------------------------------------
(* The gated passes of the Selector-Based Reader *)

\* the image URL is on a CDN hostname of Zara, of Mango
ZaraHosted(url) ==
    Includes(url, <<"s", "t", "a", "t", "i", "c", ".", "z", "a", "r", "a", ".", "n", "e", "t">>)

MangoHosted(url) ==
    \/ Includes(url, <<"s", "t", ".", "m", "n", "g", "b", "c", "n", ".", "c", "o", "m">>)
    \/ Includes(url, <<"m", "a", "n", "g", "o", ".", "c", "o", "m">>)

\* the images the lazy-load pass added to those the reader had before it
AddedByLazyPass(r) ==
    Range(result[r].images)
    \ Range(ImagesBeforeLazy(content[r].dom, result[r].domain, site[r].url))

\* C26: the lazy-load pass adds images only under zara.com, shop.mango.com
\* and mango.com, and only images on the CDN hostnames of the domain it runs
\* for: none of Mango's under zara.com, none of Zara's under a Mango domain.
C26_LazyPassOwnCdnOnly ==
    \A r \in Requests :
        SelectorsSupplied(r) =>
            \A u \in AddedByLazyPass(r) :
                /\ result[r].domain \in {Str(Zara), Str(ShopMango), Str(Mango)}
                /\ result[r].domain = Str(Zara) => ~MangoHosted(u)
                /\ result[r].domain \in {Str(ShopMango), Str(Mango)} => ~ZaraHosted(u)


\* the images the reader has after the image selectors, before the in-page
\* JSON search
ImagesBeforeJson(dom, domain, baseUrl) ==
    Dedupe(ResolveAndFilter(AllImageUrls(dom, SelectorsFor(domain).images, {}, 1),
                            baseUrl, domain, FALSE))

\* C27: the in-page JSON image search is performed only for shop.mango.com
\* and mango.com: under any other domain the images of the reader are those
\* it had before the search (and, under zara.com, those of the lazy-load pass).
C27_JsonSearchMangoOnly ==
    \A r \in Requests :
        SelectorsSupplied(r) /\ result[r].domain \notin {Str(ShopMango), Str(Mango)} =>
            /\ ImagesBeforeLazy(content[r].dom, result[r].domain, site[r].url)
                 = ImagesBeforeJson(content[r].dom, result[r].domain, site[r].url)
            /\ result[r].domain # Str(Zara) =>
                   result[r].images
                     = ImagesBeforeJson(content[r].dom, result[r].domain, site[r].url)


-----------------------------------------------------------------------------
(* A probe that fails *)

\* a lookup without one of its keys
Except(f, key) == [k \in DOMAIN f \ {key} |-> f[k]]

\* the fields of the reader that are read from the elements of a selector
ElementFields == {"title", "description", "price", "currency", "sku"}

\* the probes of the Selector-Based Reader under the table sels
SelectorProbes(sels) ==
    UNION {{<<f, sel>> : sel \in Range(sels[f])} : f \in ElementFields}
    \cup {<<"images", sel>> : sel \in Range(sels.images)}
    \cup {<<"meta", m>> : m \in {"meta[property=\"product:price:currency\"]",
                                 "meta[name=\"currency\"]", "meta[property=\"product:sku\"]",
                                 "meta[name=\"product:sku\"]", "meta[property=\"product:id\"]"}}
    \cup {<<"json", "currency">>, <<"json", "sku">>, <<"json", "images">>,
          <<"lazy", "img">>, <<"sku-attr", SkuProbe>>}

\* the selector of an element probe serves no other field of the table, so
\* that the page without its element is the page where this probe alone
\* finds nothing
SoleUse(sels, probe) ==
    probe[1] \in ElementFields =>
        \A g \in ElementFields \ {probe[1]} : probe[2] \notin Range(sels[g])

\* the DOM where the probe finds nothing
Without(dom, probe) ==
    IF probe[1] \in ElementFields \cup {"sku-attr"}
    THEN [dom EXCEPT !.els = Except(@, probe[2])]
    ELSE IF probe[1] = "images" THEN [dom EXCEPT !.imgs = Except(@, probe[2])]
    ELSE IF probe[1] = "meta" THEN [dom EXCEPT !.meta = Except(@, probe[2])]
    ELSE IF probe = <<"json", "currency">> THEN [dom EXCEPT !.jsonCurrency = Null]
    ELSE IF probe = <<"json", "sku">> THEN [dom EXCEPT !.jsonSku = Null]
    ELSE IF probe = <<"json", "images">> THEN [dom EXCEPT !.jsonImages = <<>>]
    ELSE [dom EXCEPT !.allImgs = <<>>]

-----------------------------------------------------------------------------
(* The provenance of the records *)

\* C29: every record extractProductData returns has the provenance json-ld,
\* embedded-json or selectors, also when no reader extracted a field; among
\* the records pushed to the dataset only the error record of the request
\* handler has no provenance.
C29_ProvenanceNeverNull ==
    \A r \in Requests :
        /\ pc[r] = "push" => result[r].detectedApi \in {"json-ld", "embedded-json", "selectors"}
        /\ \A i \in 1..Len(emitted[r]) :
               emitted[r][i].detectedApi = "null" => emitted[r][i].error

\* C29's case: extractProductData has returned a record for which no reader
\* extracted any field, and its provenance is selectors
C29_EmptyRecordReturned ==
    \E r \in Requests :
        /\ pc[r] = "push"
        /\ result[r].title = Null /\ result[r].description = Null /\ result[r].price = Null
        /\ result[r].currency = Null /\ result[r].sku = Null /\ result[r].images = <<>>
        /\ result[r].detectedApi = "selectors"


-----------------------------------------------------------------------------
(* The sku of the URL path *)

\* the segments of the path that contain a digit, in order
DigitSegments(pathParts) ==
    SelectSeq(pathParts, LAMBDA part : \E i \in 1..Len(part) : part[i] \in Digits)

\* the position of the first digit of a segment that has one, and the
\* position of the last digit of the run that starts there
FirstDigitAt(part) ==
    CHOOSE i \in 1..Len(part) :
        part[i] \in Digits /\ \A j \in 1..(i - 1) : part[j] \notin Digits

RunEndFrom(part, i) ==
    CHOOSE k \in i..Len(part) :
        /\ \A j \in i..k : part[j] \in Digits
        /\ k = Len(part) \/ part[k + 1] \notin Digits

\* the first run of digits of a segment that has a digit
LeadingRun(part) == SubSeq(part, FirstDigitAt(part), RunEndFrom(part, FirstDigitAt(part)))

\* the path segments of the URL of request r
PathPartsOf(r) == PathParts(Pathname(site[r].url))

\* C30: when the sku is still null after the sku selectors and a path
\* segment of the URL contains a digit, the sku is the first run of digits of
\* the first such segment, whatever its length and whatever precedes it; the
\* meta tags, the script-state globals and the data-attribute probe are
\* reached only when no path segment contains a digit.
C30_UrlSkuIsFirstDigitRun ==
    \A r \in Requests :
        calls[r] # <<>> =>
            \A faults \in SelectorFaults :
                /\ ~Truthy(StepYield(SkuChainOf(r, faults)[1]))
                   /\ DigitSegments(PathPartsOf(r)) # <<>>
                   => FallbackChain(SkuChainOf(r, faults))
                        = Str(LeadingRun(Head(DigitSegments(PathPartsOf(r)))))
                /\ Range(StepsAttempted(SkuChainOf(r, faults))) \cap {"meta", "json", "attr"} # {}
                   => DigitSegments(PathPartsOf(r)) = <<>>

\* C30's case: the reader has given the record the digits 12 of the segment
\* ab12cd345 of the URL, on a page with a sku meta tag
C30_DigitsAfterLetters ==
    \E r \in Requests :
        /\ pc[r] = "largest"
        /\ "selectors" \in Range(calls[r])
        /\ site[r].url = MixedUrl
        /\ Truthy(StepYield(SkuChainOf(r, {})[3]))
        /\ result[r].sku = Str(<<"1", "2">>)

=============================================================================
